---- MODULE Spec2Model ----
(***************************************************************************)
(* Bitruvius: a 2D articulated-figure kinematics core (utils/kinematics.ts) *)
(* and the editor state that drives it (App.tsx).                           *)
(*                                                                          *)
(* Numbers.  Lengths and coordinates are integers counting 1/400 px: every  *)
(* anatomical length (a multiple of 0.25 px) is a multiple of 100, and a    *)
(* bone rotated by one of the angles below keeps integer coordinates.       *)
(* Angles are integers counting degrees.  Sines and cosines are exact       *)
(* rationals with denominator 25 on the angles 90*q + k*a, k in -2..2,      *)
(* where a = atan(3/4) is written 37 (so 53 = 90 - a, 74 = 2a, 16 = 90-2a); *)
(* real arithmetic on these angles is exact.  A JavaScript number that is   *)
(* not finite is NaN, PosInf or NegInf; a missing property is Undefined.    *)
(***************************************************************************)
EXTENDS Integers, Sequences, FiniteSets, TLC

VARIABLES
  heap,               \* the {x, y} objects poses refer to: address -> [x, y]
  frames,             \* App state: the sequence of poses (each holds a root address)
  currentFrameIndex,  \* App state: 0-based index into frames
  past, future,       \* App state: undo and redo stacks of {frames, index}
  isPlaying,
  isGrounded, gravity, floorMagnetism, sitMode, seatHeight, tension,
  hulaMomentum, stancePinLeft, stancePinRight,
  jumpMode, jumpPhase, testMode,
  pinnedJoints,       \* App state: Map from joint key to the pinned {x, y}
  pc,                 \* position of the harness that applies one core function
  arg,                \* the inputs of that application
  ret                 \* its outputs

coreVars == <<pc, arg, ret>>
timelineVars == <<frames, currentFrameIndex, past, future, isPlaying>>
physicsVars ==
  <<isGrounded, gravity, floorMagnetism, sitMode, seatHeight, tension,
    hulaMomentum, stancePinLeft, stancePinRight, jumpMode, jumpPhase, testMode>>
appVars == <<timelineVars, physicsVars, pinnedJoints>>
vars == <<heap, appVars, coreVars>>

---------------------------------------------------------------------------
(* JavaScript numbers that are not finite, and the missing property.       *)

NaN == 900000001
PosInf == 900000002
NegInf == 900000003
Undefined == 900000004

isFinite(v) == v \notin {NaN, PosInf, NegInf, Undefined}

Abs(n) == IF n < 0 THEN -n ELSE n
Max2(a, b) == IF a >= b THEN a ELSE b
Min2(a, b) == IF a <= b THEN a ELSE b

---------------------------------------------------------------------------
(* constants.ts *)

Px(n) == 400 * n
HEAD_UNIT == Px(55)
HEAD == HEAD_UNIT
NECK == HEAD_UNIT \div 2
TORSO == (45 * HEAD_UNIT) \div 10
PELVIS == 2 * HEAD_UNIT
UPPER_ARM == (25 * HEAD_UNIT) \div 10
LOWER_ARM == (21 * HEAD_UNIT) \div 10
HAND == (8 * HEAD_UNIT) \div 10
LEG_UPPER == (325 * HEAD_UNIT) \div 100
LEG_LOWER == (325 * HEAD_UNIT) \div 100
FOOT == HEAD_UNIT
SHOULDER_WIDTH == (22 * HEAD_UNIT) \div 10
HIP_WIDTH == 2 * HEAD_UNIT
SHOULDER_INSET == Px(5)
SHOULDER_LIFT == 0
CLAVICLE_EXTENSION == HEAD_UNIT \div 2
FLOOR_HEIGHT == Px(4675) \div 10

\* DEFAULT_POSE.root is one object, held at address 1 of the heap for ever.
DEFAULT_ROOT_ADDR == 1

DEFAULT_POSE ==
  [ root |-> DEFAULT_ROOT_ADDR, rootRotation |-> 0, hips |-> 0, torso |-> 180,
    neck |-> 0, lShoulder |-> 0, lBicepCorrective |-> -12, lForearm |-> 0,
    lWrist |-> 0, rShoulder |-> 0, rBicepCorrective |-> 12, rForearm |-> 0,
    rWrist |-> 0, lThigh |-> 0, lThighCorrective |-> 5, lCalf |-> 0,
    lAnkle |-> 0, rThigh |-> 0, rThighCorrective |-> -5, rCalf |-> 0,
    rAnkle |-> 0, offsets |-> <<>> ]

InitialHeap == << [x |-> 0, y |-> 0] >>

---------------------------------------------------------------------------
(* Objects.  A pose is a function from its property names to values; the    *)
(* property root holds the address of an {x, y} object of the heap.        *)

Has(o, k) == k \in DOMAIN o
Get(o, k) == IF k \in DOMAIN o THEN o[k] ELSE Undefined
\* { ...o, [k]: v }
With(o, k, v) == (k :> v) @@ o
\* { ...a, ...b }
Spread(a, b) == b @@ a
\* an object without its optional property k
withoutKey(o, k) == [f \in DOMAIN o \ {k} |-> o[f]]
\* pose.rootRotation || 0   (0, NaN and undefined are falsy)
OrZero(v) == IF v \in {NaN, Undefined} THEN 0 ELSE v
\* pose.offsets?.[key] || { x: 0, y: 0 }
OffsetOf(offsets, k) == IF k \in DOMAIN offsets THEN offsets[k] ELSE [x |-> 0, y |-> 0]

RootOf(h, pose) == h[pose.root]
Alloc(h, xy) == [heap |-> Append(h, xy), addr |-> Len(h) + 1]

---------------------------------------------------------------------------
(* Math.cos / Math.sin of degrees, times 25. *)

CosQ1(m) ==
  CASE m = 0 -> 25 [] m = 16 -> 24 [] m = 37 -> 20
    [] m = 53 -> 15 [] m = 74 -> 7 [] m = 90 -> 0

\* m in 0..359
CosTurn(m) ==
  CosQ1(IF m <= 90 THEN m ELSE IF m <= 180 THEN 180 - m
        ELSE IF m <= 270 THEN m - 180 ELSE 360 - m)
  * (IF m <= 90 \/ m > 270 THEN 1 ELSE -1)

Cos25(deg) == CosTurn(deg % 360)
Sin25(deg) == CosTurn((deg - 90) % 360)

\* The angles of one turn on which Cos25 and Sin25 are defined.
TrigAngles == { 90 * q + d : q \in 0..3, d \in {0, 16, 37, 53, 74} }

addVec(v1, v2) == [x |-> v1.x + v2.x, y |-> v1.y + v2.y]

\* { x: x * c - y * s, y: x * s + y * c }, c and s being 25 times the cosine and sine
rotateCS(x, y, c, s) ==
  [x |-> (x * c - y * s) \div 25, y |-> (x * s + y * c) \div 25]

rotateVec(x, y, angleDeg) == rotateCS(x, y, Cos25(angleDeg), Sin25(angleDeg))

---------------------------------------------------------------------------
(* kinematics.ts: forward kinematics *)

getGlobalAngle(pose, part) ==
  LET root == OrZero(Get(pose, "rootRotation"))
      hips == root + pose.hips
      torso == root + pose.torso
  IN CASE part = "root" -> root
       [] part = "hips" -> hips
       [] part = "torso" -> torso
       [] part = "neck" -> torso + pose.neck
       [] part = "rThigh" -> hips + pose.rThigh
       [] part = "rCalf" -> hips + pose.rThigh + pose.rCalf
       [] part = "lThigh" -> hips + pose.lThigh
       [] part = "lCalf" -> hips + pose.lThigh + pose.lCalf
       [] part = "rShoulder" -> torso + 90 + pose.rShoulder
       [] part = "rForearm" -> torso + 90 + pose.rShoulder + pose.rForearm
       [] part = "lShoulder" -> torso - 90 - pose.lShoulder
       [] part = "lForearm" -> torso - 90 - pose.lShoulder + pose.lForearm
       [] OTHER -> 0

solveCounterRotation(pose, part, targetGlobal) ==
  LET root == OrZero(Get(pose, "rootRotation"))
      hips == root + pose.hips
      torso == root + pose.torso
  IN CASE part = "hips" -> targetGlobal - root
       [] part = "torso" -> targetGlobal - root
       [] part = "neck" -> targetGlobal - torso
       [] part = "rThigh" -> targetGlobal - hips
       [] part = "rCalf" -> targetGlobal - (hips + pose.rThigh)
       [] part = "lThigh" -> targetGlobal - hips
       [] part = "lCalf" -> targetGlobal - (hips + pose.lThigh)
       [] part = "rShoulder" -> targetGlobal - torso - 90
       [] part = "rForearm" -> targetGlobal - (torso + 90 + pose.rShoulder)
       [] part = "lShoulder" -> torso - 90 - targetGlobal
       [] part = "lForearm" -> (torso - 90 - pose.lShoulder) - targetGlobal
       [] OTHER -> 0

\* Each joint of a chain is its parent joint plus the rotated bone; a joint
\* already placed is handed on as a parameter.
legFromAnkle(hipJoint, kneeJoint, ankleJoint, angleFootGlobal) ==
  [hip |-> hipJoint, knee |-> kneeJoint, ankle |-> ankleJoint,
   footTip |-> addVec(ankleJoint, rotateVec(0, FOOT, angleFootGlobal))]

legFromKnee(hipJoint, kneeJoint, angleCalfGlobal, footAngle) ==
  legFromAnkle(hipJoint, kneeJoint,
               addVec(kneeJoint, rotateVec(0, LEG_LOWER, angleCalfGlobal)),
               angleCalfGlobal + footAngle)

legFromHip(hipJoint, angleThighGlobal, calfAngle, footAngle) ==
  legFromKnee(hipJoint, addVec(hipJoint, rotateVec(0, LEG_UPPER, angleThighGlobal)),
              angleThighGlobal + calfAngle, footAngle)

getLegJoints(pose, isRight, pelvisEnd, globalAnglePelvis) ==
  LET thighAngle == IF isRight THEN pose.rThigh ELSE pose.lThigh
      calfAngle == IF isRight THEN pose.rCalf ELSE pose.lCalf
      ankleAngle == IF isRight THEN pose.rAnkle ELSE pose.lAnkle
      hipOffsetX == IF isRight THEN HIP_WIDTH \div 4 ELSE -(HIP_WIDTH \div 4)
      footBaseAngle == IF isRight THEN -90 ELSE 90
  IN legFromHip(addVec(pelvisEnd, rotateVec(hipOffsetX, 0, globalAnglePelvis)),
                globalAnglePelvis + thighAngle, calfAngle, footBaseAngle + ankleAngle)

armFromWrist(shoulderJoint, elbowJoint, wristJoint, globalAngleHand) ==
  [shoulder |-> shoulderJoint, elbow |-> elbowJoint, wrist |-> wristJoint,
   handTip |-> addVec(wristJoint, rotateVec(0, HAND, globalAngleHand))]

armFromElbow(shoulderJoint, elbowJoint, globalAngleForearm, wristAngle) ==
  armFromWrist(shoulderJoint, elbowJoint,
               addVec(elbowJoint, rotateVec(0, LOWER_ARM, globalAngleForearm)),
               globalAngleForearm + wristAngle)

armFromShoulder(shoulderJoint, globalAngleArm, forearmAngle, wristAngle) ==
  armFromElbow(shoulderJoint, addVec(shoulderJoint, rotateVec(0, UPPER_ARM, globalAngleArm)),
               globalAngleArm + forearmAngle, wristAngle)

getArmJoints(pose, isRight, root, globalAngleTorso) ==
  LET shoulderAngle == IF isRight THEN pose.rShoulder ELSE pose.lShoulder
      forearmAngle == IF isRight THEN pose.rForearm ELSE pose.lForearm
      wristAngle == IF isRight THEN pose.rWrist ELSE pose.lWrist
      halfWidth == SHOULDER_WIDTH \div 2 - SHOULDER_INSET + CLAVICLE_EXTENSION
      sx == IF isRight THEN -halfWidth ELSE halfWidth
      sy == SHOULDER_LIFT
      boneOffset == OffsetOf(pose.offsets, IF isRight THEN "rShoulder" ELSE "lShoulder")
      baseArmAngle == IF isRight THEN 90 ELSE -90
      effectiveShoulderAngle ==
        IF isRight THEN baseArmAngle + shoulderAngle ELSE baseArmAngle - shoulderAngle
  IN armFromShoulder(
       addVec(root, rotateVec(sx + boneOffset.x, sy + boneOffset.y, globalAngleTorso)),
       globalAngleTorso + effectiveShoulderAngle, forearmAngle, wristAngle)

jointRecord(leftLeg, rightLeg, neckBase, headTop, leftArm, rightArm) ==
  [ lHip |-> leftLeg.hip, rHip |-> rightLeg.hip,
    lKnee |-> leftLeg.knee, rKnee |-> rightLeg.knee,
    lAnkle |-> leftLeg.ankle, rAnkle |-> rightLeg.ankle,
    lFootTip |-> leftLeg.footTip, rFootTip |-> rightLeg.footTip,
    neckBase |-> neckBase, headTop |-> headTop,
    lShoulder |-> leftArm.shoulder, rShoulder |-> rightArm.shoulder,
    lElbow |-> leftArm.elbow, rElbow |-> rightArm.elbow,
    lWrist |-> leftArm.wrist, rWrist |-> rightArm.wrist,
    lHandTip |-> leftArm.handTip, rHandTip |-> rightArm.handTip ]

jointsFrom(pose, root, globalAnglePelvis, pelvisEnd, globalAngleTorso, neckBase) ==
  jointRecord(getLegJoints(pose, FALSE, pelvisEnd, globalAnglePelvis),
              getLegJoints(pose, TRUE, pelvisEnd, globalAnglePelvis),
              neckBase,
              addVec(neckBase, rotateVec(0, NECK + HEAD, globalAngleTorso + pose.neck)),
              getArmJoints(pose, FALSE, root, globalAngleTorso),
              getArmJoints(pose, TRUE, root, globalAngleTorso))

jointsAt_NoPelvis(pose, root, rootRotation) ==
  jointsFrom(pose, root, rootRotation + pose.hips, root,
             rootRotation + pose.torso,
             addVec(root, rotateVec(0, TORSO, rootRotation + pose.torso)))

\* const { root, rootRotation = 0 } = pose
jointsAt(pose, root, rootRotation) ==
  jointsFrom(pose, root, rootRotation + pose.hips,
             addVec(root, rotateVec(0, PELVIS, rootRotation + pose.hips)),
             rootRotation + pose.torso,
             addVec(root, rotateVec(0, TORSO, rootRotation + pose.torso)))

\* getJointPositions(pose), reading pose.root through the heap h
getJointPositions(h, pose) ==
  jointsAt(pose, RootOf(h, pose),
           IF Get(pose, "rootRotation") = Undefined THEN 0 ELSE pose.rootRotation)

---------------------------------------------------------------------------
(* kinematics.ts: grounding.  magnetism is the factor in percent            *)
(* (floorMagnetism / 100 in the callers), so pull = |gap| * magnetism / 100. *)

\* finalPose.root.y = y : a write through the root reference
SetRootY(h, addr, y) == [h EXCEPT ![addr] = [x |-> h[addr].x, y |-> y]]
AddRootY(h, addr, dy) == SetRootY(h, addr, h[addr].y + dy)

maxContactY(newJoints) ==
  Max2(Max2(newJoints.lFootTip.y, newJoints.rFootTip.y),
       Max2(newJoints.lAnkle.y, newJoints.rAnkle.y))

lowestContactY(h, pose) == maxContactY(getJointPositions(h, pose))

lowestHipY(joints) == Max2(joints.lHip.y, joints.rHip.y)

\* Mutant: the seat pulls with the full magnetism factor.
seatCorrect_FullPull(h, addr, seatPenetration, magnetism) ==
  AddRootY(h, addr,
           IF seatPenetration > 0 THEN -seatPenetration
           ELSE IF magnetism > 0 /\ seatPenetration < 0 /\ Abs(seatPenetration) < Px(100)
           THEN (Abs(seatPenetration) * magnetism) \div 100
           ELSE 0)

\* if (seatPenetration > 0) finalPose.root.y -= seatPenetration;
\* if (magnetism > 0 && seatPenetration < 0 && |seatPenetration| < 100) root.y += pull
seatCorrect(h, addr, seatPenetration, magnetism) ==
  AddRootY(h, addr,
           IF seatPenetration > 0 THEN -seatPenetration
           ELSE IF magnetism > 0 /\ seatPenetration < 0 /\ Abs(seatPenetration) < Px(100)
           THEN (Abs(seatPenetration) * magnetism) \div 200
           ELSE 0)

seatPass(h, pose, magnetism, seatY) ==
  seatCorrect(h, pose.root, lowestHipY(getJointPositions(h, pose)) - seatY, magnetism)

\* Mutant: the magnetic pull is not restricted to a hovering figure.
floorCorrect_PullAlways(h, addr, penetration, magnetism, inSitMode) ==
  AddRootY(h, addr,
           (IF penetration > 0 THEN -penetration ELSE 0)
           + (IF ~inSitMode /\ magnetism > 0 /\ Abs(penetration) < Px(100)
              THEN (Abs(penetration) * magnetism) \div 100 ELSE 0))

\* Mutant: the snap ignores the magnetism factor.
floorCorrect_FullSnap(h, addr, penetration, magnetism, inSitMode) ==
  AddRootY(h, addr,
           IF penetration > 0 THEN -penetration
           ELSE IF ~inSitMode /\ magnetism > 0 /\ penetration < 0 /\ Abs(penetration) < Px(100)
           THEN Abs(penetration)
           ELSE 0)

\* Mutant: a soft collision that removes half of the penetration.
floorCorrect_Soft(h, addr, penetration, magnetism, inSitMode) ==
  AddRootY(h, addr,
           IF penetration > 0 THEN -(penetration \div 2)
           ELSE IF ~inSitMode /\ magnetism > 0 /\ penetration < 0 /\ Abs(penetration) < Px(100)
           THEN (Abs(penetration) * magnetism) \div 100
           ELSE 0)

\* if (penetration > 0) finalPose.root.y -= penetration;
\* if (!sitMode && magnetism > 0 && penetration < 0 && |penetration| < 100) root.y += pull
floorCorrect(h, addr, penetration, magnetism, inSitMode) ==
  AddRootY(h, addr,
           IF penetration > 0 THEN -penetration
           ELSE IF ~inSitMode /\ magnetism > 0 /\ penetration < 0 /\ Abs(penetration) < Px(100)
           THEN (Abs(penetration) * magnetism) \div 100
           ELSE 0)

floorPass(h, pose, floorHeight, magnetism, inSitMode) ==
  floorCorrect(h, pose.root, lowestContactY(h, pose) - floorHeight, magnetism, inSitMode)

\* Mutant: a corrected figure gets its feet flattened.
resolveFinalGrounding_FlatFeet(h, pose, floorHeight, magnetism, inSitMode, seatY) ==
  [heap |-> floorPass(IF inSitMode THEN seatPass(h, pose, magnetism, seatY) ELSE h,
                      pose, floorHeight, magnetism, inSitMode),
   pose |-> [pose EXCEPT !.rAnkle = 0, !.lAnkle = 0]]

\* let finalPose = { ...pose }: a new object with pose's properties, whose root
\* is the same {x, y} object.  Returns the heap after the writes and finalPose.
resolveFinalGrounding(h, pose, floorHeight, magnetism, inSitMode, seatY) ==
  [heap |-> floorPass(IF inSitMode THEN seatPass(h, pose, magnetism, seatY) ELSE h,
                      pose, floorHeight, magnetism, inSitMode),
   pose |-> pose]

---------------------------------------------------------------------------
(* App.tsx: the editor's state after mount. *)

\* PIN SYNCHRONIZER effect: a stance pin that is on gets a pin at the ankle
\* (snapped to the floor when grounded and within 20 px) unless it has one;
\* a stance pin that is off loses its pin
snapToFloor(y, grounded) ==
  IF grounded /\ Abs(y - FLOOR_HEIGHT) < Px(20) THEN FLOOR_HEIGHT ELSE y

pinSynchronizer(prev, joints, pinLeft, pinRight, grounded) ==
  [ key \in (DOMAIN prev \ {"lFoot", "rFoot"})
             \cup (IF pinLeft THEN {"lFoot"} ELSE {})
             \cup (IF pinRight THEN {"rFoot"} ELSE {}) |->
      IF key \in DOMAIN prev THEN prev[key]
      ELSE IF key = "lFoot"
        THEN [x |-> joints.lAnkle.x, y |-> snapToFloor(joints.lAnkle.y, grounded)]
        ELSE [x |-> joints.rAnkle.x, y |-> snapToFloor(joints.rAnkle.y, grounded)] ]

\* the useState initial values, and the pins the effect sets on mount
AppInit ==
  /\ frames = <<DEFAULT_POSE>>
  /\ currentFrameIndex = 0
  /\ past = <<>>
  /\ future = <<>>
  /\ isPlaying = FALSE
  /\ isGrounded = TRUE
  /\ gravity = TRUE
  /\ floorMagnetism = 100
  /\ sitMode = FALSE
  /\ seatHeight = FLOOR_HEIGHT - Px(160)
  /\ tension = 100
  /\ hulaMomentum = FALSE
  /\ stancePinLeft = TRUE
  /\ stancePinRight = TRUE
  /\ jumpMode = FALSE
  /\ jumpPhase = "idle"
  /\ testMode = "IDLE"
  /\ pinnedJoints = pinSynchronizer(<<>>, getJointPositions(InitialHeap, DEFAULT_POSE),
                                    TRUE, TRUE, TRUE)

---------------------------------------------------------------------------
(* resolveFinalGrounding applied to a pose, and then to its own result. *)

GroundAngles == {0, 37}
GroundRootY == {Px(-150), Px(-100), Px(-40), Px(-10), 0, Px(10), Px(60), Px(250)}
GroundFloors == {FLOOR_HEIGHT, FLOOR_HEIGHT - Px(30)}
GroundMagnetism == {0, 50, 100}
GroundSeats == {FLOOR_HEIGHT - Px(160), FLOOR_HEIGHT - Px(400)}

GroundPoses ==
  { [DEFAULT_POSE EXCEPT !.root = 2, !.hips = hp, !.rThigh = -th, !.lThigh = th,
                         !.rCalf = cf, !.rAnkle = -an]
      : hp \in GroundAngles, th \in GroundAngles, cf \in GroundAngles,
        an \in GroundAngles }

GroundInit ==
  /\ AppInit
  /\ pc = "ground"
  /\ \E p \in GroundPoses, rx \in {0, Px(20)}, ry \in GroundRootY,
        fl \in GroundFloors, m \in GroundMagnetism, sit \in BOOLEAN,
        seat \in GroundSeats :
       /\ arg = [pose |-> p, root |-> [x |-> rx, y |-> ry], floorHeight |-> fl,
                 magnetism |-> m, sitMode |-> sit, seatHeight |-> seat]
       /\ heap = Append(InitialHeap, [x |-> rx, y |-> ry])
  /\ ret = <<>>

\* One call: what it was given, the root when the floor pass starts, and
\* what it returned.
groundRecord(h, pose, mid, r) ==
  [given |-> RootOf(h, pose), atFloorPass |-> RootOf(mid, pose),
   seatGap |-> lowestHipY(getJointPositions(h, pose)) - arg.seatHeight,
   gap |-> lowestContactY(mid, pose) - arg.floorHeight,
   pose |-> r.pose, root |-> RootOf(r.heap, r.pose),
   lowest |-> lowestContactY(r.heap, r.pose), heap |-> r.heap]

GroundResult(h, pose) ==
  groundRecord(h, pose,
               IF arg.sitMode THEN seatPass(h, pose, arg.magnetism, arg.seatHeight) ELSE h,
               resolveFinalGrounding(h, pose, arg.floorHeight, arg.magnetism,
                                     arg.sitMode, arg.seatHeight))

GroundCall ==
  /\ pc = "ground"
  /\ ret' = <<GroundResult(heap, arg.pose)>>
  /\ heap' = ret'[1].heap
  /\ pc' = "ground1"
  /\ UNCHANGED <<arg, appVars>>

GroundCallAgain ==
  /\ pc = "ground1"
  /\ ret' = Append(ret, GroundResult(heap, ret[1].pose))
  /\ heap' = ret'[2].heap
  /\ pc' = "ground2"
  /\ UNCHANGED <<arg, appVars>>

GroundNext == GroundCall \/ GroundCallAgain

SpecGround == GroundInit /\ [][GroundNext]_vars


(* C2: resolveFinalGrounding never modifies its argument: the pose passed   *)
(* in, its root.x and root.y included, holds the same values after the call *)
(* as before it.                                                            *)
C2_ArgumentUnchanged ==
  pc = "ground1" => RootOf(heap, arg.pose) = arg.root

(* C6: hard floor collision.  Whenever the lowest contact point is d > 0    *)
(* below floorHeight when the floor pass runs, root.y is reduced by exactly *)
(* d, the lowest contact point of the returned pose lies on floorHeight and *)
(* no magnetic pull is added, for every magnetism and sit mode.             *)
C6_HardFloorCollision ==
  \A i \in 1..Len(ret) :
    ret[i].gap > 0 =>
      /\ ret[i].root.y = ret[i].atFloorPass.y - ret[i].gap
      /\ ret[i].lowest = arg.floorHeight

\* a pose 10 px below the floor, magnetism 0, moved by exactly 10 px
C6_Witness ==
  /\ pc = "ground1"
  /\ arg.magnetism = 0
  /\ ret[1].gap = Px(10)
  /\ ret[1].root.y = arg.root.y - Px(10)

\* the same under magnetism: the push is not followed by a pull
C6_WitnessMagnet ==
  /\ pc = "ground1"
  /\ arg.magnetism = 100
  /\ ret[1].gap > 0

(* C7: with magnetism = 0 resolveFinalGrounding is idempotent: applied to   *)
(* its own result it changes root.y by zero.                                *)
C7_Idempotent ==
  (pc = "ground2" /\ arg.magnetism = 0) => ret[2].root = ret[1].root

\* the first call corrected the pose (in sit mode, both passes), the second ran
C7_Witness ==
  /\ pc = "ground2"
  /\ arg.magnetism = 0
  /\ arg.sitMode
  /\ ret[1].atFloorPass.y < ret[1].given.y
  /\ ret[1].root.y < ret[1].atFloorPass.y

(* C8: the pose returned by resolveFinalGrounding differs from the input    *)
(* pose at most in root.y: root.x, rootRotation, every joint angle, every   *)
(* corrective field and offsets equal the input's.                          *)
C8_OnlyRootY ==
  pc = "ground1" =>
    /\ DOMAIN ret[1].pose = DOMAIN arg.pose
    /\ \A k \in DOMAIN arg.pose \ {"root"} : ret[1].pose[k] = arg.pose[k]
    /\ ret[1].root.x = arg.root.x

\* a call that did move root.y, on a pose with a rotated foot
C8_Witness ==
  /\ pc = "ground1"
  /\ ret[1].root.y # arg.root.y
  /\ arg.pose.rAnkle # 0

(* C20: magnetic snap.  With sitMode = false and magnetism m > 0, if the    *)
(* lowest contact point is above floorHeight by a gap g with 0 < g < 100,   *)
(* resolveFinalGrounding returns root.y increased by exactly m * g (for m   *)
(* in (0,1] the contact point never ends below the floor); if g >= 100, or  *)
(* m = 0, or sitMode is true, the floor pass applies no pull.               *)
C20_MagneticSnap ==
  \A i \in 1..Len(ret) :
    /\ (~arg.sitMode /\ arg.magnetism > 0 /\ -ret[i].gap > 0 /\ -ret[i].gap < Px(100))
         => /\ 100 * ret[i].root.y = 100 * ret[i].atFloorPass.y + arg.magnetism * (-ret[i].gap)
            /\ ret[i].atFloorPass.y = ret[i].given.y
            /\ ret[i].lowest <= arg.floorHeight
            /\ 100 * (arg.floorHeight - ret[i].lowest)
                 = (100 - arg.magnetism) * (-ret[i].gap)
    /\ (-ret[i].gap >= 0 /\ (-ret[i].gap >= Px(100) \/ arg.magnetism = 0 \/ arg.sitMode))
         => ret[i].root.y = ret[i].atFloorPass.y

\* a pose hovering 40 px above the floor, pulled half of the way
C20_Witness ==
  /\ pc = "ground1"
  /\ ~arg.sitMode /\ arg.magnetism = 50
  /\ ret[1].gap = Px(-40)
  /\ ret[1].root.y = arg.root.y + Px(20)

\* a gap of exactly 100 px is out of range
C20_WitnessOutOfRange ==
  /\ pc = "ground1"
  /\ ~arg.sitMode /\ arg.magnetism = 100
  /\ ret[1].gap = Px(-100)
  /\ ret[1].root.y = arg.root.y

\* pull is num / den, to the unit of the coordinates
pulledBy(pull, num, den) == den * pull <= num /\ num < den * (pull + 1)

(* C21: seat pass.  With sitMode = true, if the lower (max-Y) hip joint is  *)
(* below seatHeight by p > 0, root.y is reduced by exactly p before the     *)
(* floor pass; if instead the hips are above the seat by a gap g with       *)
(* 0 < g < 100 and magnetism m > 0, root.y is increased by exactly          *)
(* 0.5 * m * g; with sitMode = false the seat height has no effect on the   *)
(* result.                                                                  *)
C21_SeatPass ==
  /\ \A i \in 1..Len(ret) :
       /\ (arg.sitMode /\ ret[i].seatGap > 0)
            => ret[i].atFloorPass.y = ret[i].given.y - ret[i].seatGap
       /\ (arg.sitMode /\ arg.magnetism > 0 /\ -ret[i].seatGap > 0
             /\ -ret[i].seatGap < Px(100))
            => pulledBy(ret[i].atFloorPass.y - ret[i].given.y,
                        arg.magnetism * (-ret[i].seatGap), 200)
       /\ ~arg.sitMode => ret[i].atFloorPass = ret[i].given
  /\ (pc = "ground1" /\ ~arg.sitMode)
       => \A seatY \in GroundSeats :
            RootOf(resolveFinalGrounding(Append(InitialHeap, arg.root), arg.pose,
                                         arg.floorHeight, arg.magnetism, FALSE, seatY).heap,
                   arg.pose) = ret[1].root

\* hips 32.5 px into the seat: the root is lifted by 32.5 px
C21_Witness ==
  /\ pc = "ground1"
  /\ arg.sitMode
  /\ ret[1].seatGap = Px(65) \div 2
  /\ ret[1].atFloorPass.y = arg.root.y - Px(65) \div 2

\* hips hovering over the seat, pulled down by half of magnetism * gap
C21_WitnessPull ==
  /\ pc = "ground1"
  /\ arg.sitMode /\ arg.magnetism = 100
  /\ ret[1].seatGap < 0 /\ -ret[1].seatGap < Px(100)
  /\ 2 * ret[1].atFloorPass.y = 2 * arg.root.y - ret[1].seatGap

---------------------------------------------------------------------------
(* getJointPositions applied to a pose, and the pose then grounded on       *)
(* FLOOR_HEIGHT as the editor grounds it (no sit mode).                     *)

\* poses with the torso, the neck and the arms turned
ArmPoses ==
  { [DEFAULT_POSE EXCEPT !.root = 2, !.torso = 180 + ta, !.neck = -ta,
                         !.rShoulder = sh, !.lShoulder = sh, !.rForearm = fa,
                         !.lForearm = fa, !.rWrist = -wr, !.lWrist = wr]
      : ta \in {0, 37}, sh \in {0, 37}, fa \in {0, -37}, wr \in {0, 37} }

\* the joints that have a rotation field in the pose
RotationJoints ==
  {"hips", "torso", "neck", "rShoulder", "lShoulder", "rForearm", "lForearm",
   "rWrist", "lWrist", "rThigh", "lThigh", "rCalf", "lCalf", "rAnkle", "lAnkle"}

JointsInit ==
  /\ AppInit
  /\ pc = "joints"
  /\ \E p \in GroundPoses \cup ArmPoses, rx \in {0, Px(20)}, ry \in GroundRootY :
       /\ arg = [pose |-> p, root |-> [x |-> rx, y |-> ry]]
       /\ heap = Append(InitialHeap, [x |-> rx, y |-> ry])
  /\ ret = <<>>

Joints ==
  /\ pc = "joints"
  /\ ret' = [joints |-> getJointPositions(heap, arg.pose),
             angles |-> [j \in RotationJoints |-> getGlobalAngle(arg.pose, j)],
             root |-> <<>>]
  /\ pc' = "joints1"
  /\ UNCHANGED <<heap, arg, appVars>>

Settle ==
  /\ pc = "joints1"
  /\ heap' = resolveFinalGrounding(heap, arg.pose, FLOOR_HEIGHT, floorMagnetism,
                                   FALSE, seatHeight).heap
  /\ ret' = [ret EXCEPT !.root = RootOf(heap', arg.pose)]
  /\ pc' = "joints2"
  /\ UNCHANGED <<arg, appVars>>

JointsNext == Joints \/ Settle

SpecJoints == JointsInit /\ [][JointsNext]_vars

isDefaultPoseAtOrigin(a) ==
  /\ withoutKey(a.pose, "root") = withoutKey(DEFAULT_POSE, "root")
  /\ a.root = InitialHeap[DEFAULT_ROOT_ADDR]

(* C19: getJointPositions(DEFAULT_POSE) places both lAnkle and rAnkle at y  *)
(* exactly equal to FLOOR_HEIGHT (467.5 = PELVIS 110 + LEG_UPPER 178.75 +   *)
(* LEG_LOWER 178.75), so the default T-pose at root {0,0} needs no hard     *)
(* floor correction: no contact point is below the floor and grounding      *)
(* leaves the root where it is.                                             *)
C19_DefaultPoseOnFloor ==
  (pc \in {"joints1", "joints2"} /\ isDefaultPoseAtOrigin(arg)) =>
    /\ ret.joints.lAnkle.y = FLOOR_HEIGHT
    /\ ret.joints.rAnkle.y = FLOOR_HEIGHT
    /\ FLOOR_HEIGHT = PELVIS + LEG_UPPER + LEG_LOWER
    /\ PELVIS = Px(110) /\ 4 * LEG_UPPER = Px(715) /\ 4 * LEG_LOWER = Px(715)
    /\ maxContactY(ret.joints) <= FLOOR_HEIGHT
    /\ pc = "joints2" => ret.root = arg.root

C19_Witness ==
  /\ pc = "joints2"
  /\ isDefaultPoseAtOrigin(arg)
  /\ ret.joints.lAnkle = [x |-> -(HIP_WIDTH \div 4), y |-> FLOOR_HEIGHT]
  /\ ret.joints.rAnkle = [x |-> HIP_WIDTH \div 4, y |-> FLOOR_HEIGHT]
  /\ ret.root = [x |-> 0, y |-> 0]

subVec(v1, v2) == [x |-> v1.x - v2.x, y |-> v1.y - v2.y]

\* the segment getJointPositions draws for a joint, as the vector between
\* the two positions it returns
segmentOf(joints, j) ==
  CASE j = "hips" -> subVec(joints.rHip, joints.lHip)
    [] j = "torso" -> subVec(joints.neckBase, arg.root)
    [] j = "neck" -> subVec(joints.headTop, joints.neckBase)
    [] j = "rShoulder" -> subVec(joints.rElbow, joints.rShoulder)
    [] j = "lShoulder" -> subVec(joints.lElbow, joints.lShoulder)
    [] j = "rForearm" -> subVec(joints.rWrist, joints.rElbow)
    [] j = "lForearm" -> subVec(joints.lWrist, joints.lElbow)
    [] j = "rWrist" -> subVec(joints.rHandTip, joints.rWrist)
    [] j = "lWrist" -> subVec(joints.lHandTip, joints.lWrist)
    [] j = "rThigh" -> subVec(joints.rKnee, joints.rHip)
    [] j = "lThigh" -> subVec(joints.lKnee, joints.lHip)
    [] j = "rCalf" -> subVec(joints.rAnkle, joints.rKnee)
    [] j = "lCalf" -> subVec(joints.lAnkle, joints.lKnee)
    [] j = "rAnkle" -> subVec(joints.rFootTip, joints.rAnkle)
    [] j = "lAnkle" -> subVec(joints.lFootTip, joints.lAnkle)

\* the same segment at rest (angle 0): the hips span the two hip joints,
\* every other segment is a bone pointing down
boneOf(j) ==
  CASE j = "hips" -> [x |-> 2 * (HIP_WIDTH \div 4), y |-> 0]
    [] j = "torso" -> [x |-> 0, y |-> TORSO]
    [] j = "neck" -> [x |-> 0, y |-> NECK + HEAD]
    [] j \in {"rShoulder", "lShoulder"} -> [x |-> 0, y |-> UPPER_ARM]
    [] j \in {"rForearm", "lForearm"} -> [x |-> 0, y |-> LOWER_ARM]
    [] j \in {"rWrist", "lWrist"} -> [x |-> 0, y |-> HAND]
    [] j \in {"rThigh", "lThigh"} -> [x |-> 0, y |-> LEG_UPPER]
    [] j \in {"rCalf", "lCalf"} -> [x |-> 0, y |-> LEG_LOWER]
    [] j \in {"rAnkle", "lAnkle"} -> [x |-> 0, y |-> FOOT]

orientedBy(joints, j, angle) ==
  segmentOf(joints, j) = rotateVec(boneOf(j).x, boneOf(j).y, angle)

(* C22: for every pose and every joint that has a rotation field in the     *)
(* pose (hips, torso, neck, and left/right shoulder, forearm, wrist, thigh, *)
(* calf, ankle), getGlobalAngle(pose, joint) equals the global angle that   *)
(* getJointPositions uses to orient that joint's segment.                   *)
C22_GlobalAngleOrientsSegment ==
  pc \in {"joints1", "joints2"} =>
    \A j \in RotationJoints : orientedBy(ret.joints, j, ret.angles[j])

\* what does hold: the eleven joints getGlobalAngle knows; for a wrist or
\* an ankle it answers 0
C22_ElevenJoints ==
  pc \in {"joints1", "joints2"} =>
    /\ \A j \in RotationJoints \ {"rWrist", "lWrist", "rAnkle", "lAnkle"} :
         orientedBy(ret.joints, j, ret.angles[j])
    /\ \A j \in {"rWrist", "lWrist", "rAnkle", "lAnkle"} : ret.angles[j] = 0

---------------------------------------------------------------------------
(* getGlobalAngle and solveCounterRotation applied to one joint of a pose. *)

AngleParts ==
  {"hips", "torso", "neck", "rThigh", "rCalf", "lThigh", "lCalf",
   "rShoulder", "rForearm", "lShoulder", "lForearm"}
AngleTargets == {-90, 0, 45}

AnglePoses ==
  { [DEFAULT_POSE EXCEPT !.rootRotation = rr, !.hips = hp, !.torso = 180 + hp,
                         !.rThigh = lb, !.lThigh = -lb, !.rShoulder = lb,
                         !.lShoulder = 2 * lb, !.lForearm = fa, !.rForearm = fa]
      : rr \in {0, 30, -200}, hp \in {0, 15}, lb \in {0, 20}, fa \in {0, -60} }

AngleInit ==
  /\ AppInit
  /\ heap = InitialHeap
  /\ pc = "angle"
  /\ \E p \in AnglePoses, part \in AngleParts, t \in AngleTargets :
       arg = [pose |-> p, part |-> part, target |-> t]
  /\ ret = <<>>

\* P' = { ...P, [J]: solveCounterRotation(P, J, T) } and getGlobalAngle(P', J)
counterRotated(pose, part, local) ==
  [local |-> local, pose |-> With(pose, part, local),
   global |-> getGlobalAngle(With(pose, part, local), part)]

CounterRotate ==
  /\ pc = "angle"
  /\ ret' = counterRotated(arg.pose, arg.part,
                           solveCounterRotation(arg.pose, arg.part, arg.target))
  /\ pc' = "angle1"
  /\ UNCHANGED <<heap, arg, appVars>>

AngleNext == CounterRotate

SpecAngle == AngleInit /\ [][AngleNext]_vars

(* C3: solveCounterRotation is the exact inverse of getGlobalAngle: for     *)
(* every pose P, target T and joint J of the eleven, the pose P' with       *)
(* P'[J] = solveCounterRotation(P, J, T) has getGlobalAngle(P', J) = T.      *)
C3_CounterRotationInverts ==
  pc = "angle1" => ret.global = arg.target

\* what does hold: the inversion is right for every joint but lForearm
C3_InvertsButLeftForearm ==
  (pc = "angle1" /\ arg.part # "lForearm") => ret.global = arg.target

---------------------------------------------------------------------------
(* App.tsx: validatePose *)

\* typeof safe[k] === 'number'   (offsets is the one object-valued property
\* beside root; NaN and the infinities are numbers, undefined is not)
typeofNumber(o, k) == k \notin {"root", "offsets"} /\ o[k] # Undefined

check_Falsy(st, v, k) ==
  IF ~isFinite(v) \/ v = 0
    THEN [safe |-> With(st.safe, k, Get(DEFAULT_POSE, k)), corrupted |-> TRUE]
    ELSE st

check_Zero(st, v, k) ==
  IF ~isFinite(v)
    THEN [safe |-> With(st.safe, k, 0), corrupted |-> TRUE]
    ELSE st

\* check(v, k): if (!Number.isFinite(v)) { safe[k] = DEFAULT_POSE[k]; corrupted = true; }
check(st, v, k) ==
  IF ~isFinite(v)
    THEN [safe |-> With(st.safe, k, Get(DEFAULT_POSE, k)), corrupted |-> TRUE]
    ELSE st

\* the body of the forEach callback for one key
checkKey(h, st, k) ==
  IF k = "root"
    THEN check(check(st, h[st.safe.root].x, "root.x"), h[st.safe.root].y, "root.y")
    ELSE IF typeofNumber(st.safe, k) THEN check(st, st.safe[k], k) ELSE st

\* Object.keys(safe).forEach(...)
RECURSIVE forEachKey(_, _, _)
forEachKey(h, st, keys) ==
  IF keys = {} THEN st
  ELSE LET k == CHOOSE key \in keys : TRUE
       IN forEachKey(h, checkKey(h, st, k), keys \ {k})

validated(p, st) ==
  [pose |-> IF st.corrupted THEN st.safe ELSE p, corrupted |-> st.corrupted]

validatePose(h, p) ==
  validated(p, forEachKey(h, [safe |-> p, corrupted |-> FALSE], DOMAIN p))

ValidateRootX == {0, Px(5), NaN, PosInf}
ValidateRootY == {0, Px(-20), NaN}
ValidateAngles == {0, 30, NaN, NegInf}
ValidateTorsos == {0, 165, PosInf}
ValidateStretch == {Undefined, 0, NaN}

ValidatePoses ==
  { IF st = Undefined THEN p ELSE With(p, "lLegStretch", st)
      : p \in { [DEFAULT_POSE EXCEPT !.root = 2, !.hips = hp, !.rThigh = th, !.torso = to]
                  : hp \in ValidateAngles, th \in ValidateAngles, to \in ValidateTorsos },
        st \in ValidateStretch }

ValidateInit ==
  /\ AppInit
  /\ pc = "validate"
  /\ \E p \in ValidatePoses, x \in ValidateRootX, y \in ValidateRootY :
       /\ arg = [pose |-> p, root |-> [x |-> x, y |-> y]]
       /\ heap = Append(InitialHeap, [x |-> x, y |-> y])
  /\ ret = <<>>

Validate ==
  /\ pc = "validate"
  /\ ret' = validatePose(heap, arg.pose)
  /\ pc' = "validated"
  /\ UNCHANGED <<heap, arg, appVars>>

ValidateNext == Validate

SpecValidate == ValidateInit /\ [][ValidateNext]_vars

\* every property of the pose but root.x holds a finite number
finiteButRootX(a) ==
  /\ isFinite(a.root.y)
  /\ \A k \in DOMAIN a.pose : typeofNumber(a.pose, k) => isFinite(a.pose[k])

(* C1: validatePose of a pose whose root.x is NaN, every other field being   *)
(* finite, returns a pose whose root.x is 0 (the DEFAULT_POSE value) and     *)
(* whose other fields are those of the input.                                *)
C1_RootXReplaced ==
  (pc = "validated" /\ arg.root.x = NaN /\ finiteButRootX(arg))
    => /\ RootOf(heap, ret.pose).x = 0
       /\ RootOf(heap, ret.pose).y = arg.root.y
       /\ \A k \in DOMAIN arg.pose \ {"root"} : ret.pose[k] = arg.pose[k]

\* what the code does with that input: root.x stays NaN and the returned
\* copy gains a property named "root.x" holding undefined
C1_RootXKept ==
  (pc = "validated" /\ arg.root.x = NaN /\ finiteButRootX(arg))
    => /\ RootOf(heap, ret.pose).x = NaN
       /\ ret.corrupted
       /\ Get(ret.pose, "root.x") = Undefined
       /\ Has(ret.pose, "root.x")

\* a non-finite angle is replaced by the DEFAULT_POSE value
ValidateAngleReplaced ==
  (pc = "validated" /\ ~isFinite(arg.pose.hips)) => ret.pose.hips = DEFAULT_POSE.hips

\* the rotation fields of a pose
angleKeys ==
  {"rootRotation", "hips", "torso", "neck", "lShoulder", "lForearm", "lWrist",
   "rShoulder", "rForearm", "rWrist", "lThigh", "lCalf", "lAnkle", "rThigh",
   "rCalf", "rAnkle"}

(* C14: for a pose whose root.x, root.y and every numeric field are finite, *)
(* validatePose returns that same pose with no field changed (the identity  *)
(* fast-path: nothing is flagged corrupted).                                *)
C14_FinitePoseUnchanged ==
  (pc = "validated" /\ isFinite(arg.root.x) /\ finiteButRootX(arg))
    => /\ ~ret.corrupted
       /\ ret.pose = arg.pose
       /\ RootOf(heap, ret.pose) = arg.root

C14_Witness ==
  /\ pc = "validated"
  /\ isFinite(arg.root.x) /\ finiteButRootX(arg)
  /\ arg.pose.torso = 0 /\ arg.pose.hips = 30 /\ Has(arg.pose, "lLegStretch")
  /\ arg.root = [x |-> Px(5), y |-> Px(-20)]
  /\ ret.pose = arg.pose

(* C15: for a pose in which one or more rotation-angle fields are NaN,      *)
(* +Infinity or -Infinity, validatePose returns a pose in which each such   *)
(* field equals DEFAULT_POSE's value for that field and every finite field  *)
(* (root.x and root.y included) equals the input's.                         *)
C15_AnglesRepaired ==
  (pc = "validated" /\ \E k \in angleKeys : ~isFinite(arg.pose[k]))
    => /\ \A k \in angleKeys :
            IF isFinite(arg.pose[k]) THEN ret.pose[k] = arg.pose[k]
                                     ELSE ret.pose[k] = DEFAULT_POSE[k]
       /\ \A k \in DOMAIN arg.pose \ {"root"} :
            (typeofNumber(arg.pose, k) /\ isFinite(arg.pose[k])) => ret.pose[k] = arg.pose[k]
       /\ isFinite(arg.root.x) => RootOf(heap, ret.pose).x = arg.root.x
       /\ isFinite(arg.root.y) => RootOf(heap, ret.pose).y = arg.root.y

C15_Witness ==
  /\ pc = "validated"
  /\ arg.pose.torso = PosInf /\ arg.pose.hips = NaN /\ arg.pose.rThigh = 30
  /\ ret.pose.torso = 180 /\ ret.pose.hips = 0 /\ ret.pose.rThigh = 30
  /\ ret.corrupted

---------------------------------------------------------------------------
(* kinematics.ts: interpolatePose.  The parameter t is in percent. *)

\* start * (1 - t) + end * t, on finite numbers
lerp(start, end, t) == (start * (100 - t) + end * t) \div 100

\* poseA.offsets || {}
offsetsOrEmpty(pose) == IF Has(pose, "offsets") THEN pose.offsets ELSE <<>>

lerpOffsets(offA, offB, t) ==
  [ key \in DOMAIN offA \cup DOMAIN offB |->
      [x |-> lerp(OffsetOf(offA, key).x, OffsetOf(offB, key).x, t),
       y |-> lerp(OffsetOf(offA, key).y, OffsetOf(offB, key).y, t)] ]

\* the properties of the result, its root object being at addr
lerpFields(poseA, poseB, t, addr) ==
  [ key \in DOMAIN poseA \cup {"root", "rootRotation", "offsets"} |->
      CASE key = "root" -> addr
        [] key = "rootRotation" ->
             lerp(OrZero(Get(poseA, key)), OrZero(Get(poseB, key)), t)
        [] key = "offsets" ->
             lerpOffsets(offsetsOrEmpty(poseA), offsetsOrEmpty(poseB), t)
        [] OTHER ->
             IF typeofNumber(poseA, key) /\ Has(poseB, key) /\ typeofNumber(poseB, key)
               THEN lerp(poseA[key], poseB[key], t)
               ELSE poseA[key] ]

lerpRoot(rootA, rootB, t) ==
  [x |-> lerp(rootA.x, rootB.x, t), y |-> lerp(rootA.y, rootB.y, t)]

interpolated(h, poseA, poseB, clampedT) ==
  [heap |-> Alloc(h, lerpRoot(RootOf(h, poseA), RootOf(h, poseB), clampedT)).heap,
   pose |-> lerpFields(poseA, poseB, clampedT, Len(h) + 1)]

interpolatePose_NoClamp(h, poseA, poseB, t) == interpolated(h, poseA, poseB, t)

\* const clampedT = Math.max(0, Math.min(1, t))
interpolatePose(h, poseA, poseB, t) ==
  interpolated(h, poseA, poseB, Max2(0, Min2(100, t)))

InterpT == {-50, 0, 25, 50, 100, 150}
InterpRoots == { [x |-> 0, y |-> 0], [x |-> Px(20), y |-> Px(-8)] }
InterpStretch == {Undefined, 0, Px(8)}
InterpOffsets == { <<>>, [lHand |-> [x |-> Px(4), y |-> Px(-12)]] }

InterpPoses ==
  { IF st = Undefined THEN p ELSE With(p, "lLegStretch", st)
      : p \in { [DEFAULT_POSE EXCEPT !.hips = hp, !.rootRotation = -hp, !.offsets = off]
                  : hp \in {0, 40}, off \in InterpOffsets },
        st \in InterpStretch }

InterpInit ==
  /\ AppInit
  /\ pc = "interp"
  /\ \E a \in InterpPoses, b \in InterpPoses, ra \in InterpRoots, rb \in InterpRoots,
        t \in InterpT :
       /\ arg = [poseA |-> With(a, "root", 2), poseB |-> With(b, "root", 3), t |-> t]
       /\ heap = InitialHeap \o <<ra, rb>>
  /\ ret = <<>>

Interpolate ==
  /\ pc = "interp"
  /\ ret' = interpolatePose(heap, arg.poseA, arg.poseB, arg.t)
  /\ heap' = ret'.heap
  /\ pc' = "interp1"
  /\ UNCHANGED <<arg, appVars>>

InterpNext == Interpolate

SpecInterp == InterpInit /\ [][InterpNext]_vars

numericKeys(pose) == { k \in DOMAIN pose : typeofNumber(pose, k) }

\* field-by-field equality: root, every numeric field, offsets
sameFields(h, p, q) ==
  /\ RootOf(h, p) = RootOf(h, q)
  /\ \A k \in numericKeys(p) \cup numericKeys(q) : Get(p, k) = Get(q, k)
  /\ \A k \in DOMAIN offsetsOrEmpty(p) \cup DOMAIN offsetsOrEmpty(q) :
       OffsetOf(offsetsOrEmpty(p), k) = OffsetOf(offsetsOrEmpty(q), k)

(* C4: interpolatePose(A, B, 0) equals A and interpolatePose(A, B, 1)       *)
(* equals B in every field (root, every numeric field, offsets), whatever   *)
(* optional numeric fields such as lLegStretch one or both poses carry.      *)
C4_EndpointsExact ==
  pc = "interp1" =>
    /\ arg.t = 0 => sameFields(heap, ret.pose, arg.poseA)
    /\ arg.t = 100 => sameFields(heap, ret.pose, arg.poseB)

\* what does hold: t = 0 gives A; t = 1 gives B when A and B have the same
\* numeric fields
C4_EndpointsSameKeys ==
  pc = "interp1" =>
    /\ arg.t <= 0 => sameFields(heap, ret.pose, arg.poseA)
    /\ (arg.t >= 100 /\ numericKeys(arg.poseA) = numericKeys(arg.poseB))
         => sameFields(heap, ret.pose, arg.poseB)

between(v, a, b) == Min2(a, b) <= v /\ v <= Max2(a, b)

C16_WitnessClamped ==
  /\ pc = "interp1"
  /\ arg.t = 150
  /\ arg.poseA.hips = 0 /\ arg.poseB.hips = 40 /\ ret.pose.hips = 40

---------------------------------------------------------------------------
(* kinematics.ts: solveTwoBoneIK.  The angles of the solution depend on the *)
(* ratios of the lengths only and the stretch is proportional to them, so   *)
(* the lengths are measured in their greatest common unit; reach is the     *)
(* fraction n / d of that unit.  Angles are looked up on the angle lattice. *)

RECURSIVE Gcd(_, _)
Gcd(a, b) == IF b = 0 THEN a ELSE Gcd(b, a % b)

unitOf(dx, dy, L1, L2) == Max2(1, Gcd(Gcd(Abs(dx), Abs(dy)), Gcd(L1, L2)))

\* Math.sqrt(dx*dx + dy*dy)
hypot(dx, dy) ==
  CHOOSE r \in Max2(Abs(dx), Abs(dy)) .. (Abs(dx) + Abs(dy)) : r * r = dx * dx + dy * dy

Frac(n, d) == [n |-> n \div Gcd(n, d), d |-> d \div Gcd(n, d)]

\* Math.max(allowedStretch, 0.05) in thousandths, allowedStretch being
\* ((100 - tension) / 100) * 0.1
elasticity(tensionPct) == Max2(100 - tensionPct, 50)

clampedDist_NoCap(dist, naturalReach, tensionPct) == [n |-> dist, d |-> 1]

\* Math.min(dist, naturalReach * (1 + Math.max(allowedStretch, 0.05)))
clampedDist(dist, naturalReach, tensionPct) ==
  IF dist * 1000 <= naturalReach * (1000 + elasticity(tensionPct))
    THEN [n |-> dist, d |-> 1]
    ELSE Frac(naturalReach * (1000 + elasticity(tensionPct)), 1000)

\* Math.acos(Math.max(-1, Math.min(1, num / den))) in degrees, den >= 0:
\* 0 / 0 is NaN and stays NaN, x / 0 is an infinity of the sign of x
acosClamped(num, den) ==
  IF den = 0 /\ num = 0 THEN NaN
  ELSE IF num >= den THEN 0
  ELSE IF num <= -den THEN 180
  ELSE CHOOSE a \in {t \in TrigAngles : t <= 180} : Cos25(a) * den = 25 * num

\* Math.atan2(dy, dx) in degrees, in (-180, 180]
atan2(dy, dx) ==
  IF dx = 0 /\ dy = 0 THEN 0
  ELSE CHOOSE a \in {IF t > 180 THEN t - 360 ELSE t : t \in TrigAngles} :
         /\ Cos25(a) * dy = Sin25(a) * dx
         /\ Cos25(a) * dx + Sin25(a) * dy > 0

thighLocalDeg(vectorAngle, alpha, currentBendDir, rootRot, hipsRot) ==
  IF alpha = NaN THEN NaN
  ELSE vectorAngle - alpha * currentBendDir - rootRot - hipsRot

calfLocalDeg_InteriorAngle(angleC, currentBendDir) ==
  IF angleC = NaN THEN NaN ELSE angleC * currentBendDir

\* (Math.PI - angleC) * currentBendDir, in degrees
calfLocalDeg(angleC, currentBendDir) ==
  IF angleC = NaN THEN NaN ELSE (180 - angleC) * currentBendDir

stretchOf(dist, naturalReach, reach, unit) ==
  IF dist > naturalReach
    THEN Max2(0, ((reach.n - naturalReach * reach.d) * unit) \div reach.d)
    ELSE 0

ikSolution(rootRot, hipsRot, dx, dy, L1, L2, currentBendDir, unit, dist, reach) ==
  [thigh |-> thighLocalDeg(
               atan2(dy, dx) - 90,
               acosClamped(L1 * L1 * reach.d * reach.d + reach.n * reach.n
                             - L2 * L2 * reach.d * reach.d,
                           2 * L1 * reach.n * reach.d),
               currentBendDir, rootRot, hipsRot),
   calf |-> calfLocalDeg(
              acosClamped(L1 * L1 * reach.d * reach.d + L2 * L2 * reach.d * reach.d
                            - reach.n * reach.n,
                          2 * L1 * L2 * reach.d * reach.d),
              currentBendDir),
   stretch |-> stretchOf(dist, L1 + L2, reach, unit)]

ikFromDist(rootRot, hipsRot, dx, dy, L1, L2, currentBendDir, tensionPct, unit, dist) ==
  ikSolution(rootRot, hipsRot, dx, dy, L1, L2, currentBendDir, unit, dist,
             clampedDist(dist, L1 + L2, tensionPct))

ikInUnits(rootRot, hipsRot, dx, dy, L1, L2, currentBendDir, tensionPct, unit) ==
  ikFromDist(rootRot, hipsRot, dx \div unit, dy \div unit, L1 \div unit, L2 \div unit,
             currentBendDir, tensionPct, unit, hypot(dx \div unit, dy \div unit))

ikFromDelta(rootRot, hipsRot, dx, dy, L1, L2, currentBendDir, tensionPct) ==
  ikInUnits(rootRot, hipsRot, dx, dy, L1, L2, currentBendDir, tensionPct,
            unitOf(dx, dy, L1, L2))

solveTwoBoneIK(rootRot, hipsRot, hipPos, targetAnkle, L1, L2, currentBendDir, tensionPct) ==
  ikFromDelta(rootRot, hipsRot, targetAnkle.x - hipPos.x, targetAnkle.y - hipPos.y,
              L1, L2, currentBendDir, tensionPct)

\* the chain of getLegJoints: bone 1 from the hip at the global thigh angle,
\* bone 2 from the knee at that angle plus the calf angle
ikForward(hipPos, L1, L2, angleThighGlobal, calfAngle) ==
  addVec(addVec(hipPos, rotateVec(0, L1, angleThighGlobal)),
         rotateVec(0, L2, angleThighGlobal + calfAngle))

\* bone lengths and hip-to-target distances: folded, bent, straight,
\* stretched and out of reach; a zero bone; the target on the hip
IKCases ==
  { [L1 |-> 500, L2 |-> 500, r |-> r] : r \in {0, 600, 800, 1000, 1040, 1200} }
  \cup { [L1 |-> 300, L2 |-> 400, r |-> r] : r \in {0, 40, 100, 500, 700} }
  \cup { [L1 |-> 400, L2 |-> 300, r |-> r] : r \in {0, 40, 100, 500, 700, 720} }
  \cup { [L1 |-> 0, L2 |-> 400, r |-> r] : r \in {0, 200, 400, 500} }
  \cup { [L1 |-> 400, L2 |-> 0, r |-> r] : r \in {0, 200, 400, 500} }
  \cup { [L1 |-> 0, L2 |-> 0, r |-> r] : r \in {0, 100, Px(50)} }
  \cup { [L1 |-> 500, L2 |-> 500, r |-> 1000 + Px(50)],
         [L1 |-> 300, L2 |-> 400, r |-> 700 + Px(50)],
         [L1 |-> LEG_UPPER, L2 |-> LEG_LOWER, r |-> LEG_UPPER + LEG_LOWER + Px(50)] }

\* five times the unit vector from the hip to the target
IKDirs == { <<5, 0>>, <<0, 5>>, <<-5, 0>>, <<0, -5>>, <<4, 3>>, <<-3, 4>> }
IKHips == { [x |-> 0, y |-> 0], [x |-> Px(5), y |-> Px(-3)] }
IKTension == {0, 50, 100}

IKInit ==
  /\ AppInit
  /\ heap = InitialHeap
  /\ pc = "ik"
  /\ \E c \in IKCases, dir \in IKDirs, hip \in IKHips, tensionPct \in IKTension,
        bend \in {1, -1}, rootRot \in {0, 16} :
       arg = [rootRot |-> rootRot, hipsRot |-> -37, hipPos |-> hip,
              targetAnkle |-> [x |-> hip.x + (c.r \div 5) * dir[1],
                               y |-> hip.y + (c.r \div 5) * dir[2]],
              L1 |-> c.L1, L2 |-> c.L2, dist |-> c.r,
              currentBendDir |-> bend, tension |-> tensionPct]
  /\ ret = <<>>

SolveIK ==
  /\ pc = "ik"
  /\ ret' = [ik |-> solveTwoBoneIK(arg.rootRot, arg.hipsRot, arg.hipPos, arg.targetAnkle,
                                   arg.L1, arg.L2, arg.currentBendDir, arg.tension),
             end |-> <<>>]
  /\ pc' = "ik1"
  /\ UNCHANGED <<heap, arg, appVars>>

\* forward kinematics of a solution whose angles are numbers
ForwardIK ==
  /\ pc = "ik1"
  /\ isFinite(ret.ik.thigh) /\ isFinite(ret.ik.calf)
  /\ ret' = [ret EXCEPT !.end = ikForward(arg.hipPos, arg.L1, arg.L2,
                                          ret.ik.thigh + arg.rootRot + arg.hipsRot,
                                          ret.ik.calf)]
  /\ pc' = "ik2"
  /\ UNCHANGED <<heap, arg, appVars>>

IKNext == SolveIK \/ ForwardIK

SpecIK == IKInit /\ [][IKNext]_vars

(* C5: solveTwoBoneIK returns finite thigh and calf angles for all finite    *)
(* inputs, the target on the origin and a bone of length 0 included, for     *)
(* both bend directions.                                                     *)
C5_FiniteAngles ==
  pc \in {"ik1", "ik2"} => isFinite(ret.ik.thigh) /\ isFinite(ret.ik.calf)

\* what does hold: the angles are finite when both bones and the distance
\* are positive
C5_FiniteWhenPositive ==
  (pc \in {"ik1", "ik2"} /\ arg.L1 > 0 /\ arg.L2 > 0 /\ arg.dist > 0)
    => isFinite(ret.ik.thigh) /\ isFinite(ret.ik.calf)

(* C10: with tension = 100 and a target at a distance of at most L1 + L2    *)
(* from the origin, the stretch is 0 and the chain of bone 1 at the thigh   *)
(* angle and bone 2 at the calf offset ends on the target, for both bend     *)
(* directions.                                                               *)
C10_ReachesTarget ==
  (pc \in {"ik1", "ik2"} /\ arg.tension = 100 /\ arg.dist <= arg.L1 + arg.L2)
    => /\ ret.ik.stretch = 0
       /\ isFinite(ret.ik.thigh) /\ isFinite(ret.ik.calf)
       /\ pc = "ik2" => ret.end = arg.targetAnkle

\* what does hold: the target is reproduced when it lies in the annulus
\* |L1 - L2| <= dist <= L1 + L2 of two positive bones and off the origin
C10_ReachesInAnnulus ==
  (pc = "ik2" /\ arg.dist <= arg.L1 + arg.L2 /\ arg.dist >= Abs(arg.L1 - arg.L2)
     /\ arg.L1 > 0 /\ arg.L2 > 0 /\ arg.dist > 0)
    => ret.ik.stretch = 0 /\ ret.end = arg.targetAnkle

\* the allowed overstretch in thousandths of L1 + L2: 5% at tension 100,
\* 10% at tension 0
overstretch(tensionPct) == IF tensionPct <= 50 THEN 100 - tensionPct ELSE 50

---------------------------------------------------------------------------
(* kinematics.ts: getMaxPoseDeviation.  The result mixes pixels and degrees; *)
(* it is counted in 1/400, as the coordinates are: a difference of angles    *)
(* of d degrees is Px(d).                                                    *)

SetMax(S) == CHOOSE m \in S : \A x \in S : x <= m

\* the numeric properties that are lengths, not angles
lengthKeys == {"lLegStretch", "rLegStretch"}
inUnits(k, v) == IF k \in lengthKeys THEN v ELSE Px(v)

\* Math.abs(valA - valB) for the keys of poseA that are numbers in both poses
fieldDiffs(poseA, poseB) ==
  { inUnits(k, Abs(poseA[k] - poseB[k])) :
      k \in { key \in DOMAIN poseA \ {"root", "rootRotation", "offsets"} :
                typeofNumber(poseA, key) /\ Has(poseB, key) /\ typeofNumber(poseB, key) } }

\* the distance of the two offsets of every key either pose carries
offsetDiffs(offA, offB) ==
  { hypot(OffsetOf(offA, k).x - OffsetOf(offB, k).x,
          OffsetOf(offA, k).y - OffsetOf(offB, k).y) : k \in DOMAIN offA \cup DOMAIN offB }

rootRotationDiff(poseA, poseB) ==
  Px(Abs(OrZero(Get(poseA, "rootRotation")) - OrZero(Get(poseB, "rootRotation"))))

maxDiffOf_NoRootRotation(rootA, rootB, poseA, poseB) ==
  SetMax({0, hypot(rootA.x - rootB.x, rootA.y - rootB.y)}
           \cup fieldDiffs(poseA, poseB)
           \cup offsetDiffs(offsetsOrEmpty(poseA), offsetsOrEmpty(poseB)))

\* maxDiff starts at 0 and is raised to every difference in turn
maxDiffOf(rootA, rootB, poseA, poseB) ==
  SetMax({0, hypot(rootA.x - rootB.x, rootA.y - rootB.y), rootRotationDiff(poseA, poseB)}
           \cup fieldDiffs(poseA, poseB)
           \cup offsetDiffs(offsetsOrEmpty(poseA), offsetsOrEmpty(poseB)))

getMaxPoseDeviation(h, poseA, poseB) ==
  maxDiffOf(RootOf(h, poseA), RootOf(h, poseB), poseA, poseB)

DevRoots == { [x |-> 0, y |-> 0], [x |-> Px(3), y |-> Px(4)], [x |-> Px(6), y |-> Px(8)] }
DevRotations == {Undefined, 0, 25}
DevHips == {0, 40}
DevStretch == {Undefined, 0, Px(8)}
DevOffsets == { <<>>, [lHand |-> [x |-> Px(4), y |-> Px(-3)]] }

DevPoses ==
  { LET p == [DEFAULT_POSE EXCEPT !.hips = hp, !.offsets = off]
        q == IF st = Undefined THEN p ELSE With(p, "lLegStretch", st)
    IN IF rr = Undefined THEN withoutKey(q, "rootRotation") ELSE With(q, "rootRotation", rr)
      : hp \in DevHips, off \in DevOffsets, st \in DevStretch, rr \in DevRotations }

DevInit ==
  /\ AppInit
  /\ pc = "dev"
  /\ \E a \in DevPoses, b \in DevPoses, ra \in DevRoots, rb \in DevRoots :
       /\ arg = [poseA |-> With(a, "root", 2), poseB |-> With(b, "root", 3)]
       /\ heap = InitialHeap \o <<ra, rb>>
  /\ ret = <<>>

Deviate ==
  /\ pc = "dev"
  /\ ret' = [ab |-> getMaxPoseDeviation(heap, arg.poseA, arg.poseB),
             aa |-> getMaxPoseDeviation(heap, arg.poseA, arg.poseA)]
  /\ pc' = "dev1"
  /\ UNCHANGED <<heap, arg, appVars>>

DevNext == Deviate

SpecDeviation == DevInit /\ [][DevNext]_vars

(* C17: getMaxPoseDeviation(A, A) = 0 for every pose A, and                 *)
(* getMaxPoseDeviation(A, B) is never negative and is at least              *)
(* |A.f - B.f| for every rotation field f.                                  *)
C17_Deviation ==
  pc = "dev1" =>
    /\ ret.aa = 0
    /\ ret.ab >= 0
    /\ \A f \in angleKeys :
         ret.ab >= Px(Abs(OrZero(Get(arg.poseA, f)) - OrZero(Get(arg.poseB, f))))

\* the rotation of the root is the largest difference; one pose has no
\* rootRotation
C17_Witness ==
  /\ pc = "dev1"
  /\ ~Has(arg.poseA, "rootRotation") /\ Get(arg.poseB, "rootRotation") = 25
  /\ arg.poseA.hips = arg.poseB.hips
  /\ RootOf(heap, arg.poseA) = [x |-> 0, y |-> 0]
  /\ RootOf(heap, arg.poseB) = [x |-> Px(3), y |-> Px(4)]
  /\ ret.ab = Px(25) /\ ret.aa = 0

---------------------------------------------------------------------------
(* kinematics.ts: applyLimbLimpness *)

\* a % n of JavaScript: the remainder has the sign of a
jsRem(a, n) == IF a >= 0 THEN a % n ELSE -((-a) % n)

wrapUp(a) == IF a < -180 THEN a + 360 ELSE a
wrapDown(a) == wrapUp(IF a > 180 THEN a - 360 ELSE a)
legCorrection(angle) == wrapDown(jsRem(angle, 360))

limpFields_MirroredArm(legGravity, torsoGlobal) ==
  [rThigh |-> legCorrection(legGravity), lThigh |-> legCorrection(legGravity),
   rCalf |-> 0, lCalf |-> 0, rAnkle |-> 0, lAnkle |-> 0,
   rShoulder |-> -90 - torsoGlobal, lShoulder |-> -90 - torsoGlobal,
   rForearm |-> 0, lForearm |-> 0, rWrist |-> 0, lWrist |-> 0]

limpFields_WristKept(legGravity, torsoGlobal) ==
  [rThigh |-> legCorrection(legGravity), lThigh |-> legCorrection(legGravity),
   rCalf |-> 0, lCalf |-> 0, rAnkle |-> 0, lAnkle |-> 0,
   rShoulder |-> -90 - torsoGlobal, lShoulder |-> torsoGlobal - 90,
   rForearm |-> 0, lForearm |-> 0, rWrist |-> 0]

limpFields(legGravity, torsoGlobal) ==
  [rThigh |-> legCorrection(legGravity), lThigh |-> legCorrection(legGravity),
   rCalf |-> 0, lCalf |-> 0, rAnkle |-> 0, lAnkle |-> 0,
   rShoulder |-> -90 - torsoGlobal, lShoulder |-> torsoGlobal - 90,
   rForearm |-> 0, lForearm |-> 0, rWrist |-> 0, lWrist |-> 0]

\* const { rootRotation = 0, hips, torso } = pose: the default stands in for
\* a missing property only
limpFrom(pose, rootRotation) ==
  Spread(pose, limpFields(-(rootRotation + pose.hips), rootRotation + pose.torso))

applyLimbLimpness(pose) ==
  limpFrom(pose, IF Get(pose, "rootRotation") = Undefined THEN 0 ELSE pose.rootRotation)

LimpRotations == {Undefined, 0, 90, -200, 200}
LimpHips == {0, 15, -30, 100}
LimpTorsos == {180, 0, 165}
LimpBends == {0, 20}

LimpPoses ==
  { LET p == [DEFAULT_POSE EXCEPT !.hips = hp, !.torso = to,
                !.rThigh = lb, !.lThigh = -lb, !.rCalf = 2 * lb, !.lCalf = lb,
                !.rAnkle = -lb, !.lAnkle = lb, !.rShoulder = lb, !.lShoulder = -3 * lb,
                !.rForearm = lb, !.lForearm = -lb, !.rWrist = lb, !.lWrist = 2 * lb]
    IN IF rr = Undefined THEN withoutKey(p, "rootRotation") ELSE With(p, "rootRotation", rr)
      : rr \in LimpRotations, hp \in LimpHips, to \in LimpTorsos, lb \in LimpBends }

LimpInit ==
  /\ AppInit
  /\ heap = InitialHeap
  /\ pc = "limp"
  /\ \E p \in LimpPoses : arg = [pose |-> p]
  /\ ret = <<>>

Relax ==
  /\ pc = "limp"
  /\ ret' = [pose |-> applyLimbLimpness(arg.pose)]
  /\ pc' = "limp1"
  /\ UNCHANGED <<heap, arg, appVars>>

LimpNext == Relax

SpecLimp == LimpInit /\ [][LimpNext]_vars

LimpFirstSegments == {"rThigh", "lThigh", "rShoulder", "lShoulder"}
LimpOtherSegments ==
  {"rCalf", "lCalf", "rAnkle", "lAnkle", "rForearm", "lForearm", "rWrist", "lWrist"}

\* the claim as stated: the four first segments are exactly the
\* counter-rotation to 0 and their global angle is 0
C12_LimpIsCounterRotation ==
  pc = "limp1" =>
    \A j \in LimpFirstSegments :
      /\ ret.pose[j] = solveCounterRotation(arg.pose, j, 0)
      /\ getGlobalAngle(ret.pose, j) = 0

(* C12: for every pose P, applyLimbLimpness(P) sets rShoulder and lShoulder *)
(* to exactly solveCounterRotation(P, joint, 0), so that their global angle *)
(* in the relaxed pose is 0, and sets rThigh and lThigh to                  *)
(* solveCounterRotation(P, joint, 0) moved by whole turns into [-180, 180], *)
(* so that their global angle is a multiple of 360, and is 0 when           *)
(* |rootRotation + hips| <= 180.                                            *)
C12_LimpUpToTurns ==
  pc = "limp1" =>
    /\ \A j \in {"rShoulder", "lShoulder"} :
         /\ ret.pose[j] = solveCounterRotation(arg.pose, j, 0)
         /\ getGlobalAngle(ret.pose, j) = 0
    /\ \A j \in {"rThigh", "lThigh"} :
         /\ ret.pose[j] \in -180 .. 180
         /\ (ret.pose[j] - solveCounterRotation(arg.pose, j, 0)) % 360 = 0
         /\ getGlobalAngle(ret.pose, j) % 360 = 0
         /\ Abs(getGlobalAngle(arg.pose, "hips")) <= 180
              => /\ ret.pose[j] = solveCounterRotation(arg.pose, j, 0)
                 /\ getGlobalAngle(ret.pose, j) = 0

C12_Witness ==
  /\ pc = "limp1"
  /\ getGlobalAngle(arg.pose, "hips") = 300
  /\ ret.pose.rThigh = 60 /\ ret.pose.lThigh = 60
  /\ arg.pose.lShoulder # ret.pose.lShoulder

(* C13: for every pose, applyLimbLimpness returns a pose in which rCalf,    *)
(* lCalf, rAnkle, lAnkle, rForearm, lForearm, rWrist and lWrist are all     *)
(* exactly 0, whatever their input values.                                  *)
C13_OtherSegmentsZero ==
  pc = "limp1" => \A j \in LimpOtherSegments : ret.pose[j] = 0

C13_Witness ==
  /\ pc = "limp1"
  /\ \A j \in LimpOtherSegments : arg.pose[j] # 0 /\ ret.pose[j] = 0

---------------------------------------------------------------------------
(* kinematics.ts: clampPoseToBox; App.tsx: handlePoseChange *)

\* Math.max(-limit, Math.min(limit, v))
clampAxis(v, limit) ==
  IF v \in {NaN, Undefined} THEN NaN
  ELSE IF v = NegInf THEN -limit
  ELSE Max2(-limit, Min2(limit, v))

clampPoseToBox_NoMargin(h, pose, boxSize) ==
  [heap |-> Append(h, [x |-> clampAxis(RootOf(h, pose).x, boxSize \div 2),
                       y |-> clampAxis(RootOf(h, pose).y, boxSize \div 2)]),
   pose |-> With(pose, "root", Len(h) + 1)]

\* { ...pose, root: { x: ..., y: ... } } : the root is a new object
clampPoseToBox(h, pose, boxSize) ==
  [heap |-> Append(h, [x |-> clampAxis(RootOf(h, pose).x, boxSize \div 2 - Px(50)),
                       y |-> clampAxis(RootOf(h, pose).y, boxSize \div 2 - Px(50))]),
   pose |-> With(pose, "root", Len(h) + 1)]

ClampCoords == {NegInf, Px(-700), Px(-550), 0, Px(10), Px(550), PosInf}
ClampBoxes == {Px(80), Px(100), Px(101), Px(1200)}

ClampInit ==
  /\ AppInit
  /\ pc = "clamp"
  /\ \E x \in ClampCoords, y \in ClampCoords, b \in ClampBoxes :
       /\ arg = [pose |-> With(DEFAULT_POSE, "root", 2), root |-> [x |-> x, y |-> y],
                 boxSize |-> b]
       /\ heap = Append(InitialHeap, [x |-> x, y |-> y])
  /\ ret = <<>>

ClampOnce ==
  /\ pc = "clamp"
  /\ heap' = clampPoseToBox(heap, arg.pose, arg.boxSize).heap
  /\ ret' = << clampPoseToBox(heap, arg.pose, arg.boxSize).pose >>
  /\ pc' = "clamp1"
  /\ UNCHANGED <<arg, appVars>>

ClampAgain ==
  /\ pc = "clamp1"
  /\ heap' = clampPoseToBox(heap, ret[1], arg.boxSize).heap
  /\ ret' = Append(ret, clampPoseToBox(heap, ret[1], arg.boxSize).pose)
  /\ pc' = "clamp2"
  /\ UNCHANGED <<arg, appVars>>

ClampNext == ClampOnce \/ ClampAgain

SpecClamp == ClampInit /\ [][ClampNext]_vars

\* v clamped into [-limit, limit], and v itself when it is in there
clampedInto(r, v, limit) ==
  /\ -limit <= r /\ r <= limit
  /\ (-limit <= v /\ v <= limit) => r = v
  /\ v > limit => r = limit
  /\ v < -limit => r = -limit

(* C18: for every pose and every boxSize >= 100, clampPoseToBox returns a   *)
(* pose whose root.x and root.y each lie in [-(boxSize/2 - 50),             *)
(* +(boxSize/2 - 50)], each coordinate clamped independently and left equal *)
(* to the input when already in range, with every non-root field unchanged; *)
(* applying it twice gives the same result as once.                         *)
C18_ClampedToBox ==
  (pc \in {"clamp1", "clamp2"} /\ arg.boxSize >= Px(100)) =>
    /\ clampedInto(RootOf(heap, ret[1]).x, IF arg.root.x = NegInf THEN -PosInf ELSE arg.root.x,
                   arg.boxSize \div 2 - Px(50))
    /\ clampedInto(RootOf(heap, ret[1]).y, IF arg.root.y = NegInf THEN -PosInf ELSE arg.root.y,
                   arg.boxSize \div 2 - Px(50))
    /\ withoutKey(ret[1], "root") = withoutKey(arg.pose, "root")
    /\ RootOf(heap, arg.pose) = arg.root
    /\ pc = "clamp2" => /\ RootOf(heap, ret[2]) = RootOf(heap, ret[1])
                        /\ withoutKey(ret[2], "root") = withoutKey(ret[1], "root")

\* x beyond the box, y inside it
C18_Witness ==
  /\ pc = "clamp2"
  /\ arg.boxSize = Px(1200)
  /\ arg.root = [x |-> Px(-700), y |-> Px(10)]
  /\ RootOf(heap, ret[1]) = [x |-> Px(-550), y |-> Px(10)]
  /\ RootOf(heap, ret[2]) = [x |-> Px(-550), y |-> Px(10)]

\* the assignments solve(key, isRight) makes to next
pinnedLeg(next, isRight, res, pinOnFloor) ==
  [ k \in DOMAIN next \cup {IF isRight THEN "rLegStretch" ELSE "lLegStretch"} |->
      CASE k = (IF isRight THEN "rThigh" ELSE "lThigh") -> res.thigh
        [] k = (IF isRight THEN "rCalf" ELSE "lCalf") -> res.calf
        [] k = (IF isRight THEN "rLegStretch" ELSE "lLegStretch") -> res.stretch
        [] pinOnFloor /\ k = (IF isRight THEN "rAnkle" ELSE "lAnkle") ->
             (IF isRight THEN 90 ELSE -90)
               - (OrZero(Get(next, "rootRotation")) + next.hips + res.thigh + res.calf)
        [] OTHER -> next[k] ]

\* solve(key, isRight), guarded by its caller's stance pin test
solvePin(next, j, key, isRight, stancePin) ==
  IF ~(stancePin /\ key \in DOMAIN pinnedJoints) THEN next
  ELSE pinnedLeg(next, isRight,
                 solveTwoBoneIK(OrZero(Get(next, "rootRotation")), next.hips,
                                IF isRight THEN j.rHip ELSE j.lHip, pinnedJoints[key],
                                LEG_UPPER, LEG_LOWER, 1, tension),
                 isGrounded /\ Abs(pinnedJoints[key].y - FLOOR_HEIGHT) < Px(10))

applyPinConstraints(h, p) ==
  IF DOMAIN pinnedJoints = {} THEN p
  ELSE IF jumpMode \/ sitMode \/ hulaMomentum THEN p
  ELSE solvePin(solvePin(p, getJointPositions(h, p), "lFoot", FALSE, stancePinLeft),
                getJointPositions(h, p), "rFoot", TRUE, stancePinRight)

\* solve(isR, hip) of the sit branch
seatedLeg(rootRot, hipsRot, hip) ==
  IF gravity
    THEN solveTwoBoneIK(rootRot, hipsRot, hip, [x |-> hip.x, y |-> FLOOR_HEIGHT],
                        LEG_UPPER, LEG_LOWER, 1, 100) @@ [ankle |-> 0]
    ELSE [thigh |-> 0, calf |-> 0, ankle |-> 0, stretch |-> 0]

seatedLegs(candidate, rr, lr) ==
  [ k \in DOMAIN candidate \cup {"rLegStretch", "lLegStretch"} |->
      CASE k = "rThigh" -> rr.thigh [] k = "rCalf" -> rr.calf
        [] k = "rAnkle" -> rr.ankle [] k = "rLegStretch" -> rr.stretch
        [] k = "lThigh" -> lr.thigh [] k = "lCalf" -> lr.calf
        [] k = "lAnkle" -> lr.ankle [] k = "lLegStretch" -> lr.stretch
        [] OTHER -> candidate[k] ]

seatedFrom(candidate, j) ==
  seatedLegs(candidate,
             seatedLeg(OrZero(Get(candidate, "rootRotation")), candidate.hips, j.rHip),
             seatedLeg(OrZero(Get(candidate, "rootRotation")), candidate.hips, j.lHip))

\* candidate.root.y = seatHeight - ANATOMY.PELVIS : a write through candidate.root
seated(h, candidate) ==
  [heap |-> h, pose |-> seatedFrom(candidate, getJointPositions(h, candidate))]

sitBranch(h, candidate) ==
  seated(SetRootY(h, candidate.root, seatHeight - PELVIS), candidate)

\* Pass 3: re-apply the pins if Pass 2 moved the root
reapplied(candidate, grounded) ==
  IF \/ RootOf(grounded.heap, grounded.pose).y # RootOf(grounded.heap, candidate).y
     \/ RootOf(grounded.heap, grounded.pose).x # RootOf(grounded.heap, candidate).x
    THEN [heap |-> grounded.heap, pose |-> applyPinConstraints(grounded.heap, grounded.pose)]
    ELSE grounded

groundingPipeline(h, candidate) ==
  IF isGrounded /\ ~jumpMode
    THEN reapplied(candidate,
                   resolveFinalGrounding(h, candidate, FLOOR_HEIGHT, floorMagnetism, FALSE, 0))
    ELSE [heap |-> h, pose |-> candidate]

clamped(r) == clampPoseToBox(r.heap, r.pose, Px(1200))

\* the pose handlePoseChange commits for candidate = { ...prev, ...updates }
handlePoseChange(h, candidate) ==
  clamped(IF sitMode /\ ~jumpMode
            THEN sitBranch(h, candidate)
            ELSE groundingPipeline(h, applyPinConstraints(h, candidate)))

---------------------------------------------------------------------------
(* Garbage collection.  After a step the heap keeps the objects the state   *)
(* still refers to, numbered in the order the state meets them:             *)
(* DEFAULT_POSE.root, then the roots of frames, of past and of future.      *)

RECURSIVE framesOf(_)
framesOf(history) ==
  IF history = <<>> THEN <<>> ELSE Head(history).frames \o framesOf(Tail(history))

RECURSIVE liveRoots(_, _)
liveRoots(poses, seen) ==
  IF poses = <<>> THEN seen
  ELSE liveRoots(Tail(poses),
                 IF \E i \in 1 .. Len(seen) : seen[i] = Head(poses).root
                   THEN seen ELSE Append(seen, Head(poses).root))

movedPose(pose, order) ==
  With(pose, "root", CHOOSE i \in 1 .. Len(order) : order[i] = pose.root)

movedFrames(fr, order) == [i \in 1 .. Len(fr) |-> movedPose(fr[i], order)]

movedHistory(history, order) ==
  [i \in 1 .. Len(history) |->
     [frames |-> movedFrames(history[i].frames, order), index |-> history[i].index]]

collectedIn(h, fr, pa, fu, order) ==
  [heap |-> [i \in 1 .. Len(order) |-> h[order[i]]],
   frames |-> movedFrames(fr, order),
   past |-> movedHistory(pa, order),
   future |-> movedHistory(fu, order)]

collected(h, fr, pa, fu) ==
  collectedIn(h, fr, pa, fu,
              liveRoots(fr \o framesOf(pa) \o framesOf(fu), <<DEFAULT_ROOT_ADDR>>))

\* the next heap, frames, past and future
settled(c) ==
  /\ heap' = c.heap
  /\ frames' = c.frames
  /\ past' = c.past
  /\ future' = c.future

---------------------------------------------------------------------------
(* App.tsx: the editor's handlers as steps.  Slider angles and seat heights *)
(* are taken from the lattice; the frame list is bounded.                    *)

MaxFrames == 2

\* onChange({ [key]: v }) of a slider, onChange({ root: { ...pose.root, x: v } })
\* of ROOT_X, and the handlePoseChange({}) of the seat slider
Updates ==
  { [key |-> k, v |-> v] : k \in {"neck"}, v \in {0, 74} }
  \cup { [key |-> "root", v |-> 0] }
SeatHeights == {0}
PhysicsModes == {"SIT", "FLOOR", "JUMP"}

\* { ...prev, ...updates }
candidateOf(h, prev, u) ==
  IF u.key = "none" THEN [heap |-> h, pose |-> prev]
  ELSE IF u.key = "root"
    THEN [heap |-> Append(h, [x |-> u.v, y |-> RootOf(h, prev).y]),
          pose |-> With(prev, "root", Len(h) + 1)]
    ELSE [heap |-> h, pose |-> With(prev, u.key, u.v)]

\* Edits in sit mode are explored for seats that put the root at or above its
\* standing height (the seat slider's range does): every leg solved from then
\* on is straight down to its target, which is on the lattice.
seatedOnLattice == (sitMode /\ ~jumpMode) => seatHeight - PELVIS <= 0

\* setFrames(p => { const n = [...p]; n[currentFrameIndex] = candidate; return n; })
commit(r) ==
  settled(collected(r.heap, [frames EXCEPT ![currentFrameIndex + 1] = r.pose], past, future))

poseChange(c) == commit(handlePoseChange(c.heap, c.pose))

HandlePoseChange(u) ==
  /\ pc = "app"
  /\ seatedOnLattice
  /\ poseChange(candidateOf(heap, frames[currentFrameIndex + 1], u))
  /\ isPlaying' = FALSE
  /\ UNCHANGED <<currentFrameIndex, physicsVars, pinnedJoints, coreVars>>

\* setSeatHeight(v); handlePoseChange({}) : the handler still sees the old seatHeight
SetSeatHeight(v) ==
  /\ pc = "app"
  /\ seatedOnLattice
  /\ poseChange(candidateOf(heap, frames[currentFrameIndex + 1], [key |-> "none", v |-> 0]))
  /\ isPlaying' = FALSE
  /\ seatHeight' = v
  /\ UNCHANGED <<currentFrameIndex, pinnedJoints, coreVars,
                 isGrounded, gravity, floorMagnetism, sitMode, tension, hulaMomentum,
                 stancePinLeft, stancePinRight, jumpMode, jumpPhase, testMode>>

\* recordHistory: setPast(prev => [...prev, { frames, index: currentFrameIndex }]);
\* setFuture([])
recorded == Append(past, [frames |-> frames, index |-> currentFrameIndex])

\* setFrames(p => [...p, {...p[currentFrameIndex]}]) : the copy keeps the root reference
AddFrame ==
  /\ pc = "app"
  /\ Len(frames) < MaxFrames
  /\ settled(collected(heap, Append(frames, frames[currentFrameIndex + 1]), recorded, <<>>))
  /\ currentFrameIndex' = currentFrameIndex + 1
  /\ UNCHANGED <<isPlaying, physicsVars, pinnedJoints, coreVars>>

lerpExact(start, end, t) == (start * (100 - t) + end * t) % 100 = 0

\* the in-between of a and b is representable: its halves are exact and its
\* angles are on the lattice
inBetweenOnLattice(h, a, b) ==
  /\ lerpExact(RootOf(h, a).x, RootOf(h, b).x, 50)
  /\ lerpExact(RootOf(h, a).y, RootOf(h, b).y, 50)
  /\ \A k \in numericKeys(a) \cap numericKeys(b) :
       /\ lerpExact(a[k], b[k], 50)
       /\ k \in angleKeys => (lerp(a[k], b[k], 50) % 90) \in {0, 16, 37, 53, 74}

\* n.splice(currentFrameIndex + 1, 0, p)
spliced(p) ==
  settled(collected(p.heap,
                    SubSeq(frames, 1, currentFrameIndex + 1) \o <<p.pose>>
                      \o SubSeq(frames, currentFrameIndex + 2, Len(frames)),
                    recorded, <<>>))

InsertInBetween ==
  /\ pc = "app"
  /\ Len(frames) < MaxFrames
  /\ inBetweenOnLattice(heap, frames[currentFrameIndex + 1],
                        frames[((currentFrameIndex + 1) % Len(frames)) + 1])
  /\ spliced(interpolatePose(heap, frames[currentFrameIndex + 1],
                             frames[((currentFrameIndex + 1) % Len(frames)) + 1], 50))
  /\ currentFrameIndex' = currentFrameIndex + 1
  /\ UNCHANGED <<isPlaying, physicsVars, pinnedJoints, coreVars>>

\* onSelectFrame = setCurrentFrameIndex
SelectFrame(i) ==
  /\ pc = "app"
  /\ i # currentFrameIndex
  /\ currentFrameIndex' = i
  /\ UNCHANGED <<heap, frames, past, future, isPlaying, physicsVars, pinnedJoints, coreVars>>

\* the PIN SYNCHRONIZER effect after a render in which testMode or isGrounded changed
pinsSynced ==
  pinnedJoints' =
    IF testMode' = "IDLE" /\ (testMode' # testMode \/ isGrounded' # isGrounded)
      THEN pinSynchronizer(pinnedJoints, getJointPositions(heap, frames[currentFrameIndex + 1]),
                           stancePinLeft, stancePinRight, isGrounded')
      ELSE pinnedJoints

handlePhysicsToggle(mode) ==
  /\ testMode' = "IDLE"
  /\ CASE mode = "SIT" ->
            /\ sitMode' = ~sitMode
            /\ isGrounded' = (IF ~sitMode THEN FALSE ELSE isGrounded)
            /\ jumpMode' = (IF ~sitMode THEN FALSE ELSE jumpMode)
            /\ jumpPhase' = (IF ~sitMode THEN "idle" ELSE jumpPhase)
       [] mode = "FLOOR" ->
            /\ isGrounded' = ~isGrounded
            /\ sitMode' = (IF ~isGrounded THEN FALSE ELSE sitMode)
            /\ jumpMode' = (IF ~isGrounded THEN FALSE ELSE jumpMode)
            /\ jumpPhase' = jumpPhase
       [] mode = "JUMP" ->
            /\ jumpMode' = ~jumpMode
            /\ sitMode' = (IF ~jumpMode THEN FALSE ELSE sitMode)
            /\ isGrounded' = (IF ~jumpMode THEN TRUE ELSE isGrounded)
            /\ jumpPhase' = jumpPhase

PhysicsToggle(mode) ==
  /\ pc = "app"
  /\ handlePhysicsToggle(mode)
  /\ pinsSynced
  /\ UNCHANGED <<heap, timelineVars, coreVars, gravity, floorMagnetism, seatHeight,
                 tension, hulaMomentum, stancePinLeft, stancePinRight>>

EditorInit ==
  /\ AppInit
  /\ heap = InitialHeap
  /\ pc = "app"
  /\ arg = <<>>
  /\ ret = <<>>

EditorNext ==
  \/ \E u \in Updates : HandlePoseChange(u)
  \/ \E v \in SeatHeights : SetSeatHeight(v)
  \/ AddFrame
  \/ InsertInBetween
  \/ \E i \in 0 .. Len(frames) - 1 : SelectFrame(i)
  \/ \E mode \in PhysicsModes : PhysicsToggle(mode)

SpecEditor == EditorInit /\ [][EditorNext]_vars

\* the field values of a frame, its root read through the heap
frameValue(h, pose) ==
  [fields |-> [k \in DOMAIN pose \ {"root"} |-> pose[k]], root |-> RootOf(h, pose)]

(* C9: each frame exclusively owns its pose: an edit applied to the current *)
(* frame (handlePoseChange, with grounding or in sit mode) changes no field  *)
(* value of any other frame, after any sequence of add-frame,               *)
(* insert-in-between, select-frame and edits.                                *)
C9_EditLeavesOtherFrames ==
  [][ ((\E u \in Updates : HandlePoseChange(u)) \/ (\E v \in SeatHeights : SetSeatHeight(v)))
        => \A i \in 1 .. Len(frames) :
             i # currentFrameIndex + 1
               => frameValue(heap', frames'[i]) = frameValue(heap, frames[i]) ]_vars

\* what solve(key, isRight) writes from the IK solution of each leg
ikOf(pose) ==
  [k \in {"rThigh", "rCalf", "rLegStretch", "lThigh", "lCalf", "lLegStretch"} |-> Get(pose, k)]

\* the grounding pass moved root.y of the pose of Pass 1
groundingMoved(h, p1, g) == RootOf(g.heap, g.pose).y # RootOf(h, p1).y

reSolved(h, p1, g) ==
  groundingMoved(h, p1, g)
    => ikOf(frames'[currentFrameIndex + 1]) = ikOf(applyPinConstraints(g.heap, g.pose))

reSolvedAfterPass1(h, p1) ==
  reSolved(h, p1, resolveFinalGrounding(h, p1, FLOOR_HEIGHT, floorMagnetism, FALSE, 0))

reSolvedFor(c) == reSolvedAfterPass1(c.heap, applyPinConstraints(c.heap, c.pose))

pinnedOnFloor ==
  /\ DOMAIN pinnedJoints # {} /\ (stancePinLeft \/ stancePinRight)
  /\ isGrounded /\ ~sitMode /\ ~jumpMode /\ ~hulaMomentum

(* C23: resolve-then-re-IK in one update.  In handlePoseChange with a foot  *)
(* pin active, floor grounding on and neither sit, jump nor hula mode       *)
(* active, whenever the grounding pass returns a root.y different from the  *)
(* root.y the pose had before grounding, applyPinConstraints is run again   *)
(* on the grounded pose in the same call: the committed frame carries the   *)
(* IK solution (thigh, calf, stretch) against the hips of the grounded      *)
(* root.                                                                    *)
C23_ResolveThenReIK ==
  [][ \A u \in Updates :
        (HandlePoseChange(u) /\ pinnedOnFloor)
          => reSolvedFor(candidateOf(heap, frames[currentFrameIndex + 1], u)) ]_vars

(* C24: DEFAULT_POSE is a constant.  After any sequence of app operations   *)
(* from the initial state frames = [DEFAULT_POSE], DEFAULT_POSE.root is     *)
(* still {x: 0, y: 0}, so a pose built as { ...DEFAULT_POSE } has its root  *)
(* at the origin.  (The other properties of DEFAULT_POSE are never assigned *)
(* to: every handler writes to a copy.)                                     *)
C24_DefaultPoseConstant ==
  /\ Len(heap) >= DEFAULT_ROOT_ADDR
  /\ RootOf(heap, DEFAULT_POSE) = [x |-> 0, y |-> 0]

\* the angles of the solution for the inputs a with another tension and
\* bend direction
ikAngles(a, tensionPct, bend) ==
  [k \in {"thigh", "calf"} |->
     solveTwoBoneIK(a.rootRot, a.hipsRot, a.hipPos, a.targetAnkle, a.L1, a.L2,
                    bend, tensionPct)[k]]

outOfReach(a) == a.L1 > 0 /\ a.L2 > 0 /\ a.dist >= a.L1 + a.L2

\* the end of the straight limb of length L1 + L2 from the hip toward the
\* target, the targets being at dist / 5 times a vector of length 5
straightEnd(a) ==
  [x |-> a.hipPos.x + ((a.L1 + a.L2) \div 5) * ((5 * (a.targetAnkle.x - a.hipPos.x)) \div a.dist),
   y |-> a.hipPos.y + ((a.L1 + a.L2) \div 5) * ((5 * (a.targetAnkle.y - a.hipPos.y)) \div a.dist)]

(* C26: for every target at a distance of at least L1 + L2 from the hip     *)
(* (L1, L2 > 0), solveTwoBoneIK returns calf = 0 (a straight limb) and a    *)
(* thigh angle that points bone 1 straight at the target, the same for      *)
(* every tension and both bend directions: the amount of stretch does not  *)
(* alter the returned angles.                                               *)
C26_OutOfReachStraight ==
  (pc \in {"ik1", "ik2"} /\ outOfReach(arg)) =>
    /\ ret.ik.calf = 0
    /\ ret.ik.thigh + arg.rootRot + arg.hipsRot
         = atan2(arg.targetAnkle.y - arg.hipPos.y, arg.targetAnkle.x - arg.hipPos.x) - 90
    /\ \A tensionPct \in IKTension, bend \in {1, -1} :
         ikAngles(arg, tensionPct, bend) = [k \in {"thigh", "calf"} |-> ret.ik[k]]
    /\ pc = "ik2" => ret.end = straightEnd(arg)

C26_Witness ==
  /\ pc = "ik2" /\ outOfReach(arg) /\ arg.dist > arg.L1 + arg.L2
  /\ arg.tension = 0 /\ arg.currentBendDir = -1 /\ arg.L1 # arg.L2
  /\ ret.ik.stretch > 0 /\ ret.ik.calf = 0

---------------------------------------------------------------------------
(* App.tsx 500-516: the test-deck loop solving a hand pin                   *)

\* if (isR) { nextPose.rShoulder = res.thigh; nextPose.rForearm = res.calf; }
\* else { nextPose.lShoulder = res.thigh; nextPose.lForearm = res.calf; }
handWritten(pose, isR, res) ==
  IF isR THEN [pose EXCEPT !.rShoulder = res.thigh, !.rForearm = res.calf]
         ELSE [pose EXCEPT !.lShoulder = res.thigh, !.lForearm = res.calf]

\* const cr = (nextPose.rootRotation||0) + nextPose.torso;
\* const res = solveTwoBoneIK(cr, isR?90:-90, isR?j.rShoulder:j.lShoulder, tgt,
\*                            UPPER_ARM, LOWER_ARM, isR?1:-1, tension)
solveHandPin(pose, j, isR, tgt, tensionPct) ==
  handWritten(pose, isR,
    solveTwoBoneIK(OrZero(Get(pose, "rootRotation")) + pose.torso,
                   IF isR THEN 90 ELSE -90,
                   IF isR THEN j.rShoulder ELSE j.lShoulder, tgt,
                   UPPER_ARM, LOWER_ARM, IF isR THEN 1 ELSE -1, tensionPct))

\* torso angles and roots of the poses whose hand is pinned
HandTorsos == {180, 217}
HandRoots == { [x |-> 0, y |-> 0], [x |-> 0, y |-> Px(-60)], [x |-> Px(20), y |-> Px(40)] }
\* distance from the shoulder to the pin: the reach of the arm, and beyond
HandDists == {UPPER_ARM + LOWER_ARM, UPPER_ARM + LOWER_ARM + Px(50)}

HandInit ==
  /\ AppInit
  /\ pc = "hand"
  /\ \E ta \in HandTorsos, root \in HandRoots, dir \in IKDirs, r \in HandDists,
        tensionPct \in IKTension :
       /\ heap = Append(InitialHeap, root)
       /\ arg = [pose |-> [DEFAULT_POSE EXCEPT !.root = 2, !.torso = ta],
                 dir |-> dir, dist |-> r, tension |-> tensionPct]
  /\ ret = <<>>

\* the pin of the hand, placed from the shoulder of the pose
pinFrom(shoulder, a) ==
  [x |-> shoulder.x + (a.dist \div 5) * a.dir[1],
   y |-> shoulder.y + (a.dist \div 5) * a.dir[2]]

handSolved(j, isR, tgt) ==
  /\ ret' = [isR |-> isR, tgt |-> tgt,
             pose |-> solveHandPin(arg.pose, j, isR, tgt, arg.tension),
             joints |-> <<>>]
  /\ pc' = "hand1"
  /\ UNCHANGED <<heap, arg, appVars>>

SolveHand(isR) ==
  /\ pc = "hand"
  /\ \E j \in {getJointPositions(heap, arg.pose)} :
       handSolved(j, isR, pinFrom(IF isR THEN j.rShoulder ELSE j.lShoulder, arg))

\* the joints of the pose the loop commits
HandJoints ==
  /\ pc = "hand1"
  /\ ret' = [ret EXCEPT !.joints = getJointPositions(heap, ret.pose)]
  /\ pc' = "hand2"
  /\ UNCHANGED <<heap, arg, appVars>>

HandNext == (\E isR \in BOOLEAN : SolveHand(isR)) \/ HandJoints

SpecHandPin == HandInit /\ [][HandNext]_vars

\* the global angle the solver computed toward the target: thighGlobalDeg,
\* which is atan2(dy, dx) - 90 for the straight arm of these pins
solverAngle(a) == atan2(a.dir[2], a.dir[1]) - 90

sameDirection(a, b) == (a - b) % 360 = 0

armKey(isR) == IF isR THEN "rShoulder" ELSE "lShoulder"

(* C25: when the test-deck loop solves a hand pin with solveTwoBoneIK       *)
(* (rootRotation + torso, +-90) and writes the result into the shoulder and *)
(* forearm, the upper arm's global angle in the resulting pose is the       *)
(* global angle the solver computed toward the target, for the left arm as  *)
(* for the right, and the wrist lands on a pin at the arm's reach.          *)
C25_HandPinAngle ==
  pc \in {"hand1", "hand2"} =>
    /\ sameDirection(getGlobalAngle(ret.pose, armKey(ret.isR)), solverAngle(arg))
    /\ (pc = "hand2" /\ arg.dist = UPPER_ARM + LOWER_ARM)
         => (IF ret.isR THEN ret.joints.rWrist ELSE ret.joints.lWrist) = ret.tgt

\* what does hold: the right arm
C25_RightHandPin ==
  (pc \in {"hand1", "hand2"} /\ ret.isR) =>
    /\ sameDirection(getGlobalAngle(ret.pose, "rShoulder"), solverAngle(arg))
    /\ (pc = "hand2" /\ arg.dist = UPPER_ARM + LOWER_ARM) => ret.joints.rWrist = ret.tgt

---------------------------------------------------------------------------
(* App.tsx 268-271, 821-822: the undo history.  In the specification of     *)
(* this section arg logs, next to each entry of past and future, the field  *)
(* values its frames had when the entry was made.                           *)

MaxPast == 1

Front(s) == SubSeq(s, 1, Len(s) - 1)
Last(s) == s[Len(s)]

\* { frames, index: currentFrameIndex }
snapshot == [frames |-> frames, index |-> currentFrameIndex]

\* const p = past.pop(); setFuture(f => [{frames, index}, ...f]); setPast([...past]);
\* setFrames(p.frames); setCurrentFrameIndex(p.index); setIsPlaying(false)
handleUndo ==
  /\ settled(collected(heap, Last(past).frames, Front(past), <<snapshot>> \o future))
  /\ currentFrameIndex' = Last(past).index
  /\ isPlaying' = FALSE

\* const n = future.shift(); setPast(p => [...p, {frames, index}]); setFuture([...future]);
\* setFrames(n.frames); setCurrentFrameIndex(n.index); setIsPlaying(false)
handleRedo ==
  /\ settled(collected(heap, Head(future).frames, Append(past, snapshot), Tail(future)))
  /\ currentFrameIndex' = Head(future).index
  /\ isPlaying' = FALSE

\* the field values of the frames, and the index, as they are now
valuesNow ==
  [frames |-> [i \in 1 .. Len(frames) |-> frameValue(heap, frames[i])],
   index |-> currentFrameIndex]

\* onInteractionStart = recordHistory
RecordHistory ==
  /\ pc = "app"
  /\ Len(past) < MaxPast
  /\ settled(collected(heap, frames, recorded, <<>>))
  /\ arg' = [undo |-> Append(arg.undo, valuesNow), redo |-> <<>>]
  /\ UNCHANGED <<currentFrameIndex, isPlaying, physicsVars, pinnedJoints, pc, ret>>

UndoLogged ==
  /\ pc = "app"
  /\ Len(past) > 0
  /\ handleUndo
  /\ arg' = [undo |-> Front(arg.undo), redo |-> <<valuesNow>> \o arg.redo]
  /\ UNCHANGED <<physicsVars, pinnedJoints, pc, ret>>

RedoLogged ==
  /\ pc = "app"
  /\ Len(future) > 0
  /\ handleRedo
  /\ arg' = [undo |-> Append(arg.undo, valuesNow), redo |-> Tail(arg.redo)]
  /\ UNCHANGED <<physicsVars, pinnedJoints, pc, ret>>

HistoryInit ==
  /\ AppInit
  /\ heap = InitialHeap
  /\ pc = "app"
  /\ arg = [undo |-> <<>>, redo |-> <<>>]
  /\ ret = <<>>

HistoryNext ==
  \/ RecordHistory
  \/ \E u \in Updates : HandlePoseChange(u)
  \/ \E mode \in {"SIT", "FLOOR"} : PhysicsToggle(mode)
  \/ UndoLogged
  \/ RedoLogged

SpecHistory == HistoryInit /\ [][HistoryNext]_vars

(* C27: undo restores values.  After recordHistory and pose edits of the    *)
(* current frame (handlePoseChange with grounding or sit mode active),      *)
(* handleUndo sets frames and currentFrameIndex so that every field of      *)
(* every frame, root.x and root.y included, has the value it had when       *)
(* recordHistory was called; a following handleRedo restores the values     *)
(* the frames had when the undo was made.                                   *)
C27_UndoRestoresValues ==
  [][ /\ UndoLogged => valuesNow' = Last(arg.undo)
      /\ RedoLogged => valuesNow' = Head(arg.redo) ]_vars

\* what does hold: every field other than the root is restored
fieldsOf(values) ==
  [frames |-> [i \in 1 .. Len(values.frames) |-> values.frames[i].fields],
   index |-> values.index]

C27_UndoRestoresFields ==
  [][ /\ UndoLogged => fieldsOf(valuesNow') = fieldsOf(Last(arg.undo))
      /\ RedoLogged => fieldsOf(valuesNow') = fieldsOf(Head(arg.redo)) ]_vars

---------------------------------------------------------------------------
(* App.tsx 301-318, 393-535, 832-835: the timeline's handlers, the test     *)
(* deck's mode buttons and the CHAOS loop, which appends a frame per tick.  *)

HandleUndo ==
  /\ pc = "app"
  /\ Len(past) > 0
  /\ handleUndo
  /\ UNCHANGED <<physicsVars, pinnedJoints, coreVars>>

HandleRedo ==
  /\ pc = "app"
  /\ Len(future) > 0
  /\ handleRedo
  /\ UNCHANGED <<physicsVars, pinnedJoints, coreVars>>

\* p.filter((_, i) => i !== currentFrameIndex)
withoutCurrent ==
  SubSeq(frames, 1, currentFrameIndex) \o SubSeq(frames, currentFrameIndex + 2, Len(frames))

indexAfterDelete_Kept == currentFrameIndex

\* if (currentFrameIndex >= frames.length - 1) setCurrentFrameIndex(p => p - 1)
indexAfterDelete ==
  IF currentFrameIndex >= Len(frames) - 1 THEN currentFrameIndex - 1 ELSE currentFrameIndex

\* onDeleteFrame
DeleteFrame ==
  /\ pc = "app"
  /\ Len(frames) > 1
  /\ settled(collected(heap, withoutCurrent, recorded, <<>>))
  /\ currentFrameIndex' = indexAfterDelete
  /\ UNCHANGED <<isPlaying, physicsVars, pinnedJoints, coreVars>>

\* setPinnedJoints(new Map()), then the PIN SYNCHRONIZER effect if testMode or
\* isGrounded changed: it sees the new current frame, a copy of DEFAULT_POSE
pinsReset(pinLeft, pinRight) ==
  pinnedJoints' =
    IF testMode' = "IDLE" /\ (testMode' # testMode \/ isGrounded' # isGrounded
                              \/ pinLeft # stancePinLeft \/ pinRight # stancePinRight)
      THEN pinSynchronizer(<<>>, getJointPositions(heap, DEFAULT_POSE),
                           pinLeft, pinRight, isGrounded')
      ELSE <<>>

handleTestModeChange(mode) ==
  /\ settled(collected(heap, [frames EXCEPT ![currentFrameIndex + 1] = DEFAULT_POSE],
                       past, future))
  /\ tension' = 100
  /\ gravity' = TRUE
  /\ isGrounded' = TRUE
  /\ currentFrameIndex' = (IF mode = "CHAOS" THEN 0 ELSE currentFrameIndex)
  /\ sitMode' = (IF mode # "IDLE" THEN FALSE ELSE sitMode)
  /\ jumpMode' = (IF mode # "IDLE" THEN FALSE ELSE jumpMode)
  /\ testMode' = mode

TestModes == {"TAFFY", "RAGDOLL", "RUBBERBOARD", "CHAOS"}

\* a button of the test deck: setTestMode(testMode === mode ? 'IDLE' : mode)
TestModeChange(mode) ==
  /\ pc = "app"
  /\ handleTestModeChange(IF testMode = mode THEN "IDLE" ELSE mode)
  /\ pinsReset(stancePinLeft, stancePinRight)
  /\ UNCHANGED <<isPlaying, floorMagnetism, seatHeight, hulaMomentum, stancePinLeft,
                 stancePinRight, jumpPhase, coreVars>>

\* updates[key] = lerp(curr, cs.targetVal, 0.1) for the joint of the chaos state,
\* and updates.root = { x: Math.sin(t) * 100, y: Math.cos(t) * 50 }
ChaosSteps == { [key |-> "hips", v |-> 16] }
ChaosRoots == { [x |-> 0, y |-> Px(50)], [x |-> Px(60), y |-> Px(40)] }

\* nextPose = clampPoseToBox(nextPose, 1200); nextPose = validatePose(nextPose)
chaosGuarded(r) == [heap |-> r.heap, pose |-> validatePose(r.heap, r.pose).pose]

chaosClamped(r) == chaosGuarded(clampPoseToBox(r.heap, r.pose, Px(1200)))

\* if (gravity) nextPose = resolveFinalGrounding(nextPose, FLOOR_HEIGHT,
\*                                              floorMagnetism/100, sitMode, seatHeight)
chaosSolved(h, nextPose) ==
  chaosClamped(IF gravity
                 THEN resolveFinalGrounding(h, nextPose, FLOOR_HEIGHT, floorMagnetism,
                                            sitMode, seatHeight)
                 ELSE [heap |-> h, pose |-> nextPose])

\* nextPose = { ...current, ...updates }
chaosPose(h, current, step, root) ==
  chaosSolved(Append(h, root), With(With(current, step.key, step.v), "root", Len(h) + 1))

\* return [...prev, nextPose]
chaosAppended(r) == settled(collected(r.heap, Append(frames, r.pose), past, future))

\* one runTest tick in CHAOS mode
ChaosTick ==
  /\ pc = "app"
  /\ testMode = "CHAOS"
  /\ Len(frames) < MaxFrames
  /\ \E step \in ChaosSteps, root \in ChaosRoots :
       chaosAppended(chaosPose(heap, frames[currentFrameIndex + 1], step, root))
  /\ currentFrameIndex' = currentFrameIndex + 1
  /\ pinnedJoints' = <<>>
  /\ UNCHANGED <<isPlaying, physicsVars, coreVars>>

\* the timeline is explored up to MaxFrames frames and, with them, up to
\* MaxTimeline - MaxFrames entries of history
MaxTimeline == 3

historyRoom == Len(past) < MaxTimeline - MaxFrames

TimelineNext ==
  \/ (historyRoom /\ AddFrame)
  \/ (historyRoom /\ InsertInBetween)
  \/ (historyRoom /\ DeleteFrame)
  \/ \E i \in 0 .. Len(frames) - 1 : SelectFrame(i)
  \/ HandleUndo
  \/ HandleRedo
  \/ \E mode \in TestModes : TestModeChange(mode)
  \/ ChaosTick

SpecTimeline == EditorInit /\ [][TimelineNext]_vars

(* C28: after any sequence of add-frame, insert-in-between, delete-frame,   *)
(* select-frame, undo, redo, test-mode changes and CHAOS test ticks, frames *)
(* is non-empty and 0 <= currentFrameIndex < frames.length.                 *)
C28_IndexInRange ==
  /\ Len(frames) >= 1
  /\ 0 <= currentFrameIndex /\ currentFrameIndex < Len(frames)

\* the frame a CHAOS tick appended, the current one, was deleted
C28_Witness ==
  /\ Len(frames) = 1 /\ currentFrameIndex = 0
  /\ Len(past) > 0 /\ Len(Last(past).frames) = 2 /\ Last(past).index = 1
  /\ testMode = "CHAOS"

C28_WitnessUndo ==
  /\ Len(future) > 0 /\ Len(Head(future).frames) # Len(frames)
  /\ currentFrameIndex = Len(frames) - 1 /\ Len(frames) = 2

---------------------------------------------------------------------------
(* App.tsx 279-330, 819: the physics modes.  The toggles, the jump trigger, *)
(* the gravity switch, the test deck's buttons and Reset T-Pose; undo and   *)
(* redo keep the history within its bound.                                  *)

\* handlePhysicsToggle('JUMP') as handleJumpTrigger calls it
jumpToggled ==
  /\ testMode' = "IDLE"
  /\ jumpMode' = ~jumpMode
  /\ sitMode' = (IF ~jumpMode THEN FALSE ELSE sitMode)
  /\ isGrounded' = (IF ~jumpMode THEN TRUE ELSE isGrounded)

\* handlePhysicsToggle('JUMP'); setJumpVelocity(jumpHeight * 0.18);
\* setJumpPhase('launching'); setHulaMomentum(false); recordHistory()
handleJumpTrigger ==
  /\ jumpToggled
  /\ jumpPhase' = "launching"
  /\ hulaMomentum' = FALSE
  /\ settled(collected(heap, frames, recorded, <<>>))
  /\ pinsSynced
  /\ UNCHANGED <<currentFrameIndex, isPlaying, gravity, floorMagnetism, seatHeight,
                 tension, stancePinLeft, stancePinRight>>

\* the Execute Jump button, rendered while jumpMode is on
JumpTrigger ==
  /\ pc = "app"
  /\ jumpMode
  /\ Len(past) < MaxPast
  /\ handleJumpTrigger
  /\ UNCHANGED coreVars

handleResetTPose_SitKept ==
  /\ settled(collected(heap, [frames EXCEPT ![currentFrameIndex + 1] = DEFAULT_POSE],
                       recorded, <<>>))
  /\ tension' = 100 /\ gravity' = TRUE /\ testMode' = "IDLE"
  /\ sitMode' = sitMode /\ jumpMode' = FALSE /\ jumpPhase' = "idle"
  /\ isGrounded' = TRUE /\ hulaMomentum' = FALSE
  /\ stancePinLeft' = TRUE /\ stancePinRight' = TRUE
  /\ isPlaying' = FALSE
  /\ pinsReset(TRUE, TRUE)
  /\ UNCHANGED <<currentFrameIndex, floorMagnetism, seatHeight>>

\* handleTestModeChange('IDLE'), the mode and pin resets, recordHistory() with
\* the frames of the render, and the frame reset again
handleResetTPose ==
  /\ settled(collected(heap, [frames EXCEPT ![currentFrameIndex + 1] = DEFAULT_POSE],
                       recorded, <<>>))
  /\ tension' = 100 /\ gravity' = TRUE /\ testMode' = "IDLE"
  /\ sitMode' = FALSE /\ jumpMode' = FALSE /\ jumpPhase' = "idle"
  /\ isGrounded' = TRUE /\ hulaMomentum' = FALSE
  /\ stancePinLeft' = TRUE /\ stancePinRight' = TRUE
  /\ isPlaying' = FALSE
  /\ pinsReset(TRUE, TRUE)
  /\ UNCHANGED <<currentFrameIndex, floorMagnetism, seatHeight>>

ResetTPose ==
  /\ pc = "app"
  /\ Len(past) < MaxPast
  /\ handleResetTPose
  /\ UNCHANGED coreVars

\* onToggleGravity={() => setGravity(!gravity)}
ToggleGravity ==
  /\ pc = "app"
  /\ gravity' = ~gravity
  /\ UNCHANGED <<heap, timelineVars, pinnedJoints, coreVars, isGrounded, floorMagnetism,
                 sitMode, seatHeight, tension, hulaMomentum, stancePinLeft,
                 stancePinRight, jumpMode, jumpPhase, testMode>>

PhysicsNext ==
  \/ \E mode \in PhysicsModes : PhysicsToggle(mode)
  \/ ToggleGravity
  \/ JumpTrigger
  \/ \E mode \in TestModes : TestModeChange(mode)
  \/ ResetTPose
  \/ HandleUndo
  \/ HandleRedo

SpecPhysics == EditorInit /\ [][PhysicsNext]_vars

(* C29: physics modes are mutually exclusive.  After any sequence of        *)
(* FLOOR/SIT/JUMP toggles, jump triggers, test-mode changes and Reset       *)
(* T-Pose, sitMode and jumpMode are never both true, sitMode true implies   *)
(* isGrounded false, and a test mode other than IDLE implies that sitMode   *)
(* and jumpMode are both false.                                             *)
C29_ModesExclusive ==
  /\ ~(sitMode /\ jumpMode)
  /\ sitMode => ~isGrounded
  /\ testMode # "IDLE" => (~sitMode /\ ~jumpMode)

\* sitting, after a jump was triggered and a test mode was entered and left
C29_Witness ==
  /\ sitMode /\ ~isGrounded /\ ~jumpMode /\ testMode = "IDLE"
  /\ Len(past) > 0 /\ jumpPhase = "idle"

C29_WitnessTest ==
  /\ testMode = "RAGDOLL" /\ jumpPhase = "launching" /\ isGrounded /\ Len(past) > 0

---------------------------------------------------------------------------
(* App.tsx 538-635: the physics loop of a jump.  In the specification of    *)
(* this section arg holds the App state jumpVelocity (1/400 px per 1/60 s)  *)
(* and landingFrame, with the number of landing ticks run so far, and ret   *)
(* holds what the closure of the running effect captured: the effect is set *)
(* up again, with the values of the new render, only when one of its        *)
(* dependencies [jumpPhase, jumpVelocity, currentFrameIndex, apexBehavior,  *)
(* waistMode, hulaMomentum, pinnedJoints, landingMode] has changed.         *)
(* apexBehavior is 'FALL' and landingMode 'STANCE', their initial values.   *)

\* jumpHeight * 0.18 with jumpHeight = 400
JUMP_VELOCITY == Px(72)
CEILING == Px(-550)
DUR == 12
\* FLOOR_HEIGHT - (LEG_UPPER + LEG_LOWER) * 0.95
standingH == FLOOR_HEIGHT - ((LEG_UPPER + LEG_LOWER) * 95) \div 100
\* dt between two frames, in sixtieths of a second
JumpDts == {3, 6}
\* 40 * Math.sin((f / DUR) * Math.PI), at the depth where the knees bend by
\* angles of the lattice (hip to floor = 0.6 * (LEG_UPPER + LEG_LOWER))
LandingDepths == {FLOOR_HEIGHT - PELVIS - standingH - (6 * (LEG_UPPER + LEG_LOWER)) \div 10}
MaxLandingTicks == 14

\* the effect's closure after a render in which a dependency changed
effectSetUp(landingFrameNow) == [landingFrame |-> landingFrameNow]

Launch ==
  /\ pc = "app"
  /\ jumpMode
  /\ Len(past) < MaxPast
  /\ handleJumpTrigger
  /\ arg' = [arg EXCEPT !.jumpVelocity = JUMP_VELOCITY]
  /\ ret' = effectSetUp(arg.landingFrame)
  /\ pc' = pc

\* if (jumpPhase === 'launching') { setJumpPhase('airborne'); return prev; }
LaunchTick ==
  /\ pc = "app"
  /\ jumpPhase = "launching"
  /\ jumpPhase' = "airborne"
  /\ ret' = effectSetUp(arg.landingFrame)
  /\ UNCHANGED <<heap, timelineVars, pinnedJoints, pc, arg, isGrounded, gravity,
                 floorMagnetism, sitMode, seatHeight, tension, hulaMomentum,
                 stancePinLeft, stancePinRight, jumpMode, testMode>>

\* if (newY < CEILING) { newY = CEILING; newVel = -newVel * 0.5; }
bounced(newY, newVel) ==
  IF newY < CEILING THEN [y |-> CEILING, vel |-> (-newVel) \div 2]
                    ELSE [y |-> newY, vel |-> newVel]

\* newY = current.root.y - jumpVelocity * dt * 60; newVel = jumpVelocity - 9.8 * dt * G
flight(y, dt) ==
  bounced(y - arg.jumpVelocity * dt, arg.jumpVelocity - (343 * 400 * dt) \div 60)

\* { ...current, root: { x: current.root.x, y: standingH } }
touchedDown(h, current) ==
  [heap |-> Append(h, [x |-> RootOf(h, current).x, y |-> standingH]),
   pose |-> With(current, "root", Len(h) + 1)]

\* { ...current, root: { ...current.root, y: newY }, rShoulder: ..., torso: 180, neck: 0 }
airbornePose(h, current, f) ==
  [heap |-> Append(h, [x |-> RootOf(h, current).x, y |-> f.y]),
   pose |-> [current EXCEPT
               !.root = Len(h) + 1,
               !.rShoulder = Max2(-170, current.rShoulder - (IF f.vel > 0 THEN 8 ELSE -4)),
               !.lShoulder = Min2(170, current.lShoulder + (IF f.vel > 0 THEN 8 ELSE -4)),
               !.rThigh = lerp(current.rThigh, 0, 20),
               !.lThigh = lerp(current.lThigh, 0, 20),
               !.rCalf = lerp(current.rCalf, 0, 20),
               !.lCalf = lerp(current.lCalf, 0, 20),
               !.torso = 180, !.neck = 0]]

framePut(r) ==
  settled(collected(r.heap, [frames EXCEPT ![currentFrameIndex + 1] = r.pose], past, future))

\* the tick of the airborne phase for the flight step f
airborne(f) ==
  IF f.vel < 0 /\ f.y >= standingH
    THEN /\ jumpPhase' = "landing"
         /\ framePut(touchedDown(heap, frames[currentFrameIndex + 1]))
         /\ arg' = [arg EXCEPT !.landingFrame = 0, !.ticks = 0]
         /\ ret' = effectSetUp(0)
    ELSE /\ jumpPhase' = jumpPhase
         /\ framePut(clamped(airbornePose(heap, frames[currentFrameIndex + 1], f)))
         /\ arg' = [arg EXCEPT !.jumpVelocity = f.vel]
         /\ ret' = effectSetUp(arg.landingFrame)

AirborneTick ==
  /\ pc = "app"
  /\ jumpPhase = "airborne"
  /\ \E dt \in JumpDts : airborne(flight(RootOf(heap, frames[currentFrameIndex + 1]).y, dt))
  /\ UNCHANGED <<currentFrameIndex, isPlaying, pinnedJoints, pc, isGrounded, gravity,
                 floorMagnetism, sitMode, seatHeight, tension, hulaMomentum,
                 stancePinLeft, stancePinRight, jumpMode, testMode>>

\* j.lHip, j.rHip of getJointPositions
hipJoint(root, globalAnglePelvis, isRight) ==
  addVec(addVec(root, rotateVec(0, PELVIS, globalAnglePelvis)),
         rotateVec(IF isRight THEN HIP_WIDTH \div 4 ELSE -(HIP_WIDTH \div 4), 0,
                   globalAnglePelvis))

\* solveTwoBoneIK(land.rootRotation||0, land.hips, hip, { x: hip.x, y: FLOOR_HEIGHT }, ...)
landingLeg(pose, hip) ==
  solveTwoBoneIK(OrZero(Get(pose, "rootRotation")), pose.hips, hip,
                 [x |-> hip.x, y |-> FLOOR_HEIGHT], LEG_UPPER, LEG_LOWER, 1, 100)

landedWith(pose, lr, rr) ==
  Spread(pose, [lThigh |-> lr.thigh, lCalf |-> lr.calf, rThigh |-> rr.thigh,
                rCalf |-> rr.calf, lLegStretch |-> lr.stretch,
                rLegStretch |-> rr.stretch])

landedAt(h, land, root) ==
  [heap |-> h,
   pose |-> landedWith(land,
              landingLeg(land, hipJoint(root, OrZero(Get(land, "rootRotation")) + land.hips,
                                        FALSE)),
              landingLeg(land, hipJoint(root, OrZero(Get(land, "rootRotation")) + land.hips,
                                        TRUE)))]

\* let land = { ...current, root: { ...current.root, y: standH + absD } }
landingPose(h, current, absD) ==
  landedAt(Append(h, [x |-> RootOf(h, current).x, y |-> standingH + absD]),
           With(current, "root", Len(h) + 1),
           [x |-> RootOf(h, current).x, y |-> standingH + absD])

\* const f = landingFrame + 1, landingFrame being the one the closure captured
landingFrameNext == ret.landingFrame + 1

\* the tick of the landing phase with f = landingFrame + 1
landing(f) ==
  IF f > DUR
    THEN /\ jumpPhase' = "idle"
         /\ UNCHANGED <<heap, frames, past, future>>
    ELSE /\ jumpPhase' = jumpPhase
         /\ \E absD \in LandingDepths :
              framePut(clamped(landingPose(heap, frames[currentFrameIndex + 1], absD)))

LandingTick ==
  /\ pc = "app"
  /\ jumpPhase = "landing"
  /\ arg.ticks < MaxLandingTicks
  /\ landing(landingFrameNext)
  /\ arg' = [arg EXCEPT !.landingFrame = landingFrameNext, !.ticks = arg.ticks + 1]
  /\ ret' = (IF jumpPhase' # jumpPhase THEN effectSetUp(landingFrameNext) ELSE ret)
  /\ UNCHANGED <<currentFrameIndex, isPlaying, pinnedJoints, pc, isGrounded, gravity,
                 floorMagnetism, sitMode, seatHeight, tension, hulaMomentum,
                 stancePinLeft, stancePinRight, jumpMode, testMode>>

JumpInit ==
  /\ AppInit
  /\ heap = InitialHeap
  /\ pc = "app"
  /\ arg = [jumpVelocity |-> 0, landingFrame |-> 0, ticks |-> 0]
  /\ ret = effectSetUp(0)

\* the user switches the jump module on and executes a jump; from then on
\* the loop runs without input
JumpNext ==
  \/ (jumpPhase = "idle" /\ PhysicsToggle("JUMP"))
  \/ Launch
  \/ LaunchTick
  \/ AirborneTick
  \/ LandingTick

SpecJump == JumpInit /\ [][JumpNext]_vars

(* C30: landing terminates.  Once jumpPhase is 'landing', with no further   *)
(* user input the physics loop advances landingFrame by one per tick and    *)
(* sets jumpPhase back to 'idle' after at most 13 ticks (DUR = 12): while   *)
(* the phase is 'landing', landingFrame is the number of ticks run and at   *)
(* most DUR.                                                                *)
C30_LandingTerminates ==
  jumpPhase = "landing" => (arg.landingFrame = arg.ticks /\ arg.ticks <= DUR)

\* what the code does: every tick after the first finds landingFrame at 1
C30_LandingStuck ==
  (jumpPhase = "landing" /\ arg.ticks >= 1) => arg.landingFrame = 1

====
